---------------------------- MODULE Spec2Model ----------------------------
(***************************************************************************)
(* Model of the igloo-mcp content-conversion and continuation pipeline     *)
(* (igloo_mcp/converter.py) and of the fetch tool that drives it           *)
(* (igloo_mcp/main.py).                                                    *)
(*                                                                         *)
(* Text is a sequence of one-character strings.  Python offsets are        *)
(* 0-based; every operator below takes and returns 0-based offsets and     *)
(* converts to TLA+'s 1-based sequences only when it indexes.              *)
(* An optional value (Python's None) is the empty sequence, a present      *)
(* value x is <<x>>.                                                       *)
(***************************************************************************)
EXTENDS Integers, Sequences, FiniteSets, TLC

\* ------------------------------------------------------------------------
\* Bounds of the model
\* ------------------------------------------------------------------------

\* A document is a concatenation of at most MaxBlocks blocks of DocBlocks.
MaxBlocks == 3

\* max_length is absent or in 0..MaxBudget.
MaxBudget == 4

\* The calls of a chain are counted up to MaxHops.
MaxHops == 5

\* Texts given to find_smart_truncation_point directly are built from at
\* most MaxCutBlocks pieces and cut at a budget of at most MaxCutBudget.
MaxCutBlocks == 3
MaxCutBudget == 6

\* Texts given to balance_code_fences directly are built from at most
\* MaxFenceBlocks pieces.
MaxFenceBlocks == 4

\* Documents given to extract_section directly are built from at most
\* MaxSectionBlocks pieces.
MaxSectionBlocks == 3

\* The element trees given to sanitize_html have at most MaxElements
\* elements.
MaxElements == 3

\* The element trees given to extract_main_content have at most
\* MaxMainElements elements.
MaxMainElements == 3

\* ------------------------------------------------------------------------
\* Characters and optional values
\* ------------------------------------------------------------------------

NL == "\n"
SP == " "
\* The backtick character, written out.
TICK == "BACKTICK"
HASH == "#"

None == << >>

Some(x) == << x >>

IsNone(o) == o = << >>

Get(o) == o[1]

Min(a, b) == IF a <= b THEN a ELSE b

Max(a, b) == IF a >= b THEN a ELSE b

\* ------------------------------------------------------------------------
\* Python string primitives
\* ------------------------------------------------------------------------

\* s[i:j] for 0 <= i, 0 <= j (both clamped to the length, as Python does).
Slice(s, i, j) ==
    LET hi == Min(j, Len(s))
    IN  IF i >= hi THEN << >> ELSE SubSeq(s, i + 1, hi)

\* s[i:]
SliceFrom(s, i) == Slice(s, i, Len(s))

\* s.startswith(pat, i)
StartsWithAt(s, pat, i) ==
    /\ i + Len(pat) <= Len(s)
    /\ \A k \in 1..Len(pat) : s[i + k] = pat[k]

\* s.rfind(pat): the highest offset at which pat occurs in s, -1 if none.
RFind(s, pat) ==
    LET hits == { i \in 0..(Len(s) - Len(pat)) : StartsWithAt(s, pat, i) }
    IN  IF hits = {} THEN -1 ELSE CHOOSE i \in hits : \A j \in hits : j <= i

\* s.count(pat) from offset i on: non-overlapping occurrences, left to right.
RECURSIVE CountFrom(_, _, _)
CountFrom(s, pat, i) ==
    IF i + Len(pat) > Len(s) THEN 0
    ELSE IF StartsWithAt(s, pat, i) THEN 1 + CountFrom(s, pat, i + Len(pat))
    ELSE CountFrom(s, pat, i + 1)

Count(s, pat) == CountFrom(s, pat, 0)

\* ------------------------------------------------------------------------
\* converter.py: constants
\* ------------------------------------------------------------------------

\* The window ratio is a float in (0, 1); the model keeps it in percent, and
\* int(max_length * ratio) is (max_length * percent) \div 100.
DEFAULT_TRUNCATION_WINDOW_RATIO == 15

FENCE == << TICK, TICK, TICK >>

\* The text balance_code_fences appends: newline, fence, newline and the
\* marker line [Code block truncated].
FENCE_CLOSING ==
    << NL, TICK, TICK, TICK, NL, "[", "C", "o", "d", "e", SP, "b", "l", "o",
       "c", "k", SP, "t", "r", "u", "n", "c", "a", "t", "e", "d", "]" >>

\* ------------------------------------------------------------------------
\* converter.py: find_smart_truncation_point
\* ------------------------------------------------------------------------

\* The priority search with the word boundary tried before the sentence
\* ends.
cut_in_region_word_first(search_region, search_start, max_length) ==
    LET para_pos == RFind(search_region, << NL, NL >>)
        line_pos == RFind(search_region, << NL >>)
        dot_pos == RFind(search_region, << ".", SP >>)
        bang_pos == RFind(search_region, << "!", SP >>)
        quest_pos == RFind(search_region, << "?", SP >>)
        word_pos == RFind(search_region, << SP >>)
    IN  IF para_pos # -1 THEN search_start + para_pos + 2
        ELSE IF line_pos # -1 THEN search_start + line_pos + 1
        ELSE IF word_pos # -1 THEN search_start + word_pos + 1
        ELSE IF dot_pos # -1 THEN search_start + dot_pos + 2
        ELSE IF bang_pos # -1 THEN search_start + bang_pos + 2
        ELSE IF quest_pos # -1 THEN search_start + quest_pos + 2
        ELSE max_length

\* Lines 108-130: the priority search in search_region, which starts at
\* offset search_start of the text.
cut_in_region(search_region, search_start, max_length) ==
    LET para_pos == RFind(search_region, << NL, NL >>)
        line_pos == RFind(search_region, << NL >>)
        dot_pos == RFind(search_region, << ".", SP >>)
        bang_pos == RFind(search_region, << "!", SP >>)
        quest_pos == RFind(search_region, << "?", SP >>)
        word_pos == RFind(search_region, << SP >>)
    IN  IF para_pos # -1 THEN search_start + para_pos + 2
        ELSE IF line_pos # -1 THEN search_start + line_pos + 1
        ELSE IF dot_pos # -1 THEN search_start + dot_pos + 2
        ELSE IF bang_pos # -1 THEN search_start + bang_pos + 2
        ELSE IF quest_pos # -1 THEN search_start + quest_pos + 2
        ELSE IF word_pos # -1 THEN search_start + word_pos + 1
        ELSE max_length

\* The search made in the whole prefix markdown[0:max_length], the window
\* ignored.
cut_from_prefix_start(markdown, max_length, search_start) ==
    cut_in_region(Slice(markdown, 0, max_length), 0, max_length)

\* Line 106: search_region = markdown[search_start:max_length].
cut_from(markdown, max_length, search_start) ==
    cut_in_region(Slice(markdown, search_start, max_length), search_start,
                  max_length)

\* Lines 104-105: window_size = int(max_length * window_ratio) and
\* search_start = max(0, max_length - window_size).
find_smart_truncation_point(markdown, max_length, window_ratio) ==
    cut_from(markdown, max_length,
             Max(0, max_length - (max_length * window_ratio) \div 100))

\* ------------------------------------------------------------------------
\* converter.py: balance_code_fences
\* ------------------------------------------------------------------------

\* The repair that appends the marker line alone, without a closing fence.
balance_code_fences_marker_only(content) ==
    IF Count(content, FENCE) % 2 = 1
    THEN content \o SubSeq(FENCE_CLOSING, 5, Len(FENCE_CLOSING))
    ELSE content

balance_code_fences(content) ==
    IF Count(content, FENCE) % 2 = 1 THEN content \o FENCE_CLOSING ELSE content

\* ------------------------------------------------------------------------
\* converter.py: the header pattern  ^(#{1,6})\s+(.+?)(?:\s*#*)?$  (MULTILINE)
\* ------------------------------------------------------------------------

\* The largest header level the pattern accepts: #{1,6}.
MAX_HEADER_LEVEL == 6

\* The character at 0-based offset i.
Ch(s, i) == s[i + 1]

\* \s
IsSpace(c) == c \in { SP, NL }

\* The character classes of the pattern: "space" is \s, "hash" is #, "dot"
\* is . (anything but a newline).
InClass(class, c) ==
    CASE class = "space" -> IsSpace(c)
      [] class = "hash" -> c = HASH
      [] class = "dot" -> c # NL

\* The length of the longest run of characters of a class that starts at i.
Run(s, i, class) ==
    CHOOSE n \in 0..(Len(s) - i) :
        /\ \A k \in 0..(n - 1) : InClass(class, Ch(s, i + k))
        /\ (i + n = Len(s) \/ ~InClass(class, Ch(s, i + n)))

\* $ in MULTILINE mode: at the end of the text or just before a newline.
AtLineEnd(s, x) == x = Len(s) \/ Ch(s, x) = NL

\* ^ in MULTILINE mode: at the start of the text or just after a newline.
AtLineStart(s, p) == p = 0 \/ Ch(s, p - 1) = NL

\* (?:\s*#*)?$ tried at q: the pairs (i, j) of a \s* of i characters and a
\* #* of j characters after which the line ends.
TailEnds(s, q) ==
    { << i, j >> \in (0..Run(s, q, "space")) \X (0..(Len(s) - q)) :
          /\ j <= Run(s, q + i, "hash")
          /\ AtLineEnd(s, q + i + j) }

\* The pair the greedy matcher reaches first: longest \s*, then longest #*.
GreedyTail(c) ==
    CHOOSE x \in c : \A y \in c : y[1] < x[1] \/ (y[1] = x[1] /\ y[2] <= x[2])

\* Where the match ends when the text of the header ends at q.
TailEnd(s, q) == q + GreedyTail(TailEnds(s, q))[1] + GreedyTail(TailEnds(s, q))[2]

\* \s+ is greedy and backtracks: the ways to split "whitespace, then text".
\* k = characters taken by \s+, m = characters taken by the lazy .+?
HeaderSplits(s, p, h) ==
    { << k, m >> \in (1..Run(s, p + h, "space")) \X (1..(Len(s) - p)) :
          /\ m <= Run(s, p + h + k, "dot")
          /\ TailEnds(s, p + h + k + m) # {} }

\* The split the matcher reaches first: the longest \s+, then the shortest
\* .+? .
FirstSplit(c) ==
    CHOOSE x \in c : \A y \in c : y[1] < x[1] \/ (y[1] = x[1] /\ y[2] >= x[2])

\* s.strip()
RECURSIVE LStrip(_)
LStrip(s) == IF s # << >> /\ IsSpace(Head(s)) THEN LStrip(Tail(s)) ELSE s

RECURSIVE RStrip(_)
RStrip(s) ==
    IF s # << >> /\ IsSpace(s[Len(s)]) THEN RStrip(SubSeq(s, 1, Len(s) - 1))
    ELSE s

Strip(s) == RStrip(LStrip(s))

\* Does the pattern match at p, where a run of h hashes starts?
HeaderMatchesWith(s, p, h) ==
    /\ h \in 1..MAX_HEADER_LEVEL
    /\ HeaderSplits(s, p, h) # {}

\* Does the pattern match with its start at p?
HeaderMatches(s, p) ==
    /\ p < Len(s)
    /\ AtLineStart(s, p)
    /\ HeaderMatchesWith(s, p, Run(s, p, "hash"))

\* The match at p with h hashes whose text is the m characters from q0 on:
\* (level, start, text, end).
HeaderMatchOf(s, p, h, q0, m) ==
    [ level |-> h,
      start |-> p,
      text |-> Strip(Slice(s, q0, q0 + m)),
      end |-> TailEnd(s, q0 + m) ]

HeaderMatchSplit(s, p, h, split) ==
    HeaderMatchOf(s, p, h, p + h + split[1], split[2])

HeaderMatchWith(s, p, h) ==
    HeaderMatchSplit(s, p, h, FirstSplit(HeaderSplits(s, p, h)))

\* The match at p.
HeaderMatch(s, p) == HeaderMatchWith(s, p, Run(s, p, "hash"))

\* The least element of a non-empty set of integers.
MinOf(S) == CHOOSE x \in S : \A y \in S : x <= y

\* header_pattern.finditer(markdown): the non-overlapping matches, left to
\* right, each search resuming at the end of the previous match.
RECURSIVE HeadersFrom(_, _)
HeadersAfter(s, m) == << m >> \o HeadersFrom(s, m.end)

HeadersAmong(s, starts) ==
    IF starts = {} THEN << >> ELSE HeadersAfter(s, HeaderMatch(s, MinOf(starts)))

HeadersFrom(s, pos) ==
    HeadersAmong(s, { p \in pos..(Len(s) - 1) : HeaderMatches(s, p) })

\* ------------------------------------------------------------------------
\* converter.py: extract_section_headers and the navigation helpers
\* ------------------------------------------------------------------------

\* Lines 170-172: the (header_name, start_offset) tuple of each match.
HeaderTuples(ms) == [ i \in 1..Len(ms) |-> << ms[i].text, ms[i].start >> ]

\* The list of (header_name, start_offset) tuples.
extract_section_headers(markdown) == HeaderTuples(HeadersFrom(markdown, 0))

\* How many section names the metadata lists at most: remaining[:5].
MAX_REMAINING_SECTIONS == 5

\* Lines 193-197: None without a header before the point, else the text of
\* the last one.
LastHeaderText(headers_before) ==
    IF headers_before = << >> THEN None
    ELSE Some(headers_before[Len(headers_before)][1])

\* The path taken from the headers at or before the point.
get_current_section_path_inclusive(headers, truncation_point) ==
    LET Before(h) == h[2] <= truncation_point
    IN  IF headers = << >> THEN None
        ELSE LastHeaderText(SelectSeq(headers, Before))

get_current_section_path(headers, truncation_point) ==
    LET Before(h) == h[2] < truncation_point
    IN  IF headers = << >> THEN None
        ELSE LastHeaderText(SelectSeq(headers, Before))

\* Line 211: the names of the headers kept.
HeaderNames(hs) == [ i \in 1..Len(hs) |-> hs[i][1] ]

get_remaining_sections(headers, truncation_point) ==
    LET AtOrAfter(h) == h[2] >= truncation_point
    IN  Slice(HeaderNames(SelectSeq(headers, AtOrAfter)), 0,
              MAX_REMAINING_SECTIONS)

\* ------------------------------------------------------------------------
\* converter.py: results and errors
\* ------------------------------------------------------------------------

TruncationMetadata(status, chars_returned, chars_total, next_start_index, current_path, remaining_sections) ==
    [ status |-> status,
      chars_returned |-> chars_returned,
      chars_total |-> chars_total,
      next_start_index |-> next_start_index,
      current_path |-> current_path,
      remaining_sections |-> remaining_sections ]

ConversionResult(content, metadata) ==
    [ kind |-> "ConversionResult", content |-> content,
      metadata |-> metadata, error |-> None ]

OffsetError(start_index, document_length) ==
    [ kind |-> "OffsetError", content |-> << >>, metadata |-> None,
      error |-> Some([ start_index |-> start_index,
                       document_length |-> document_length ]) ]

SectionNotFoundError(section_name, available_sections) ==
    [ kind |-> "SectionNotFoundError", content |-> << >>, metadata |-> None,
      error |-> Some([ section_name |-> section_name,
                       available_sections |-> available_sections ]) ]

\* ------------------------------------------------------------------------
\* converter.py: extract_section
\* ------------------------------------------------------------------------

\* str.lower() on the letters of the model's alphabet.
LowerChar(c) == IF c = "A" THEN "a" ELSE IF c = "B" THEN "b" ELSE c

Lower(s) == [ i \in 1..Len(s) |-> LowerChar(s[i]) ]

\* s.lstrip('#')
RECURSIVE LStripHash(_)
LStripHash(s) ==
    IF s # << >> /\ Head(s) = HASH THEN LStripHash(Tail(s)) ELSE s

\* The section closed only by a header of a strictly higher level, a
\* sibling header left inside.
section_at_strictly_higher(markdown, headers, target_index) ==
    LET closing == { i \in (target_index + 1)..Len(headers) :
                         headers[i].level < headers[target_index].level }
        section_end == IF closing = {} THEN Len(markdown)
                       ELSE headers[MinOf(closing)].start
    IN  [ found |-> TRUE,
          content |-> RStrip(Slice(markdown, headers[target_index].start,
                                   section_end)),
          start |-> headers[target_index].start,
          raised |-> SectionNotFoundError(<< >>, << >>) ]

\* Lines 397-410: the section of the header at target_index, up to the next
\* header of the same or a higher level.
section_at(markdown, headers, target_index) ==
    LET closing == { i \in (target_index + 1)..Len(headers) :
                         headers[i].level <= headers[target_index].level }
        section_end == IF closing = {} THEN Len(markdown)
                       ELSE headers[MinOf(closing)].start
    IN  [ found |-> TRUE,
          content |-> RStrip(Slice(markdown, headers[target_index].start,
                                   section_end)),
          start |-> headers[target_index].start,
          raised |-> SectionNotFoundError(<< >>, << >>) ]

\* The lookup that takes the last header whose text is the normalized name.
section_among_last(markdown, section_name, normalized_search, headers) ==
    LET matching == { i \in 1..Len(headers) :
                          Lower(headers[i].text) = normalized_search }
    IN  IF matching = {}
        THEN [ found |-> FALSE, content |-> << >>, start |-> 0,
               raised |-> SectionNotFoundError(section_name,
                              [ i \in 1..Len(headers) |-> headers[i].text ]) ]
        ELSE section_at(markdown, headers,
                        CHOOSE i \in matching : \A j \in matching : j <= i)

\* The lookup whose error carries the normalized name.
section_among_normalized_name(markdown, section_name, normalized_search, headers) ==
    LET matching == { i \in 1..Len(headers) :
                          Lower(headers[i].text) = normalized_search }
    IN  IF matching = {}
        THEN [ found |-> FALSE, content |-> << >>, start |-> 0,
               raised |-> SectionNotFoundError(normalized_search,
                              [ i \in 1..Len(headers) |-> headers[i].text ]) ]
        ELSE section_at(markdown, headers, MinOf(matching))

\* Lines 385-395: the first header whose text is the normalized name.
section_among(markdown, section_name, normalized_search, headers) ==
    LET matching == { i \in 1..Len(headers) :
                          Lower(headers[i].text) = normalized_search }
    IN  IF matching = {}
        THEN [ found |-> FALSE, content |-> << >>, start |-> 0,
               raised |-> SectionNotFoundError(section_name,
                              [ i \in 1..Len(headers) |-> headers[i].text ]) ]
        ELSE section_at(markdown, headers, MinOf(matching))

\* Either the tuple (section_content, section_start_offset), as a record
\* with found = TRUE, or the SectionNotFoundError raised.
extract_section(markdown, section_name) ==
    section_among(markdown, section_name,
                  Lower(Strip(LStripHash(section_name))),
                  HeadersFrom(markdown, 0))

\* ------------------------------------------------------------------------
\* converter.py: convert_html_to_markdown
\* ------------------------------------------------------------------------

\* The bounds check with > in place of >=: an offset equal to the length
\* passes.
offset_out_of_bounds_strict(start_index, total_length) ==
    start_index < 0 \/ start_index > total_length

\* Line 453: the bounds check on a start_index that was given.
offset_out_of_bounds(start_index, total_length) ==
    start_index < 0 \/ start_index >= total_length

\* The slice taken one character too far.
offset_markdown_skipping(full_markdown, start_index) ==
    SliceFrom(full_markdown, start_index + 1)

\* Line 457: markdown[start_index:].
offset_markdown(full_markdown, start_index) ==
    SliceFrom(full_markdown, start_index)

\* Line 463: is the remaining text longer than the budget?
needs_truncation(max_length, remaining_length) ==
    ~IsNone(max_length) /\ remaining_length > Get(max_length)

\* The cursor left relative to the slice the call worked on.
next_start_index_relative(effective_start, truncation_point) ==
    truncation_point

\* Line 478: the cursor, relative to the original document.
next_start_index_absolute(effective_start, truncation_point) ==
    effective_start + truncation_point

\* chars_returned taken before the fence repair: the length of the cut slice.
chars_returned_before_repair(truncated, truncation_point) ==
    truncation_point

\* Line 483: chars_returned of a partial result, len(truncated) after the
\* fence repair.
chars_returned_of(truncated, truncation_point) == Len(truncated)

\* The offset test without "> 0": start_index = 0 counts as an offset.
started_from_offset_or_zero(start_index) == ~IsNone(start_index)

\* Line 494: did the call start from an offset?
started_from_offset(start_index) ==
    ~IsNone(start_index) /\ Get(start_index) > 0

\* Lines 481-490: the partial result built from the fence-repaired slice.
truncated_result(truncated, total_length, effective_start, headers, truncation_point) ==
    ConversionResult(truncated,
        Some(TruncationMetadata("partial",
                 chars_returned_of(truncated, truncation_point),
                 total_length,
                 Some(next_start_index_absolute(effective_start,
                                                truncation_point)),
                 get_current_section_path(headers, truncation_point),
                 get_remaining_sections(headers, truncation_point))))

\* The cut slice reported against the length of the text the call worked
\* on, the suffix, in place of total_length.
truncate_at_fragment_total(markdown, total_length, effective_start, headers, truncation_point) ==
    truncated_result(balance_code_fences(Slice(markdown, 0, truncation_point)),
                     Len(markdown), effective_start, headers, truncation_point)

\* Lines 472-475: truncated = balance_code_fences(markdown[:truncation_point]).
truncate_at(markdown, total_length, effective_start, headers, truncation_point) ==
    truncated_result(balance_code_fences(Slice(markdown, 0, truncation_point)),
                     total_length, effective_start, headers, truncation_point)

\* Lines 459-507: step 5 on the text left after the offset was applied.
convert_from(markdown, total_length, max_length, truncation_window_ratio, start_index, effective_start) ==
    IF needs_truncation(max_length, Len(markdown))
    THEN truncate_at(markdown, total_length, effective_start,
                     extract_section_headers(markdown),
                     find_smart_truncation_point(markdown, Get(max_length),
                                                 truncation_window_ratio))
    ELSE IF started_from_offset(start_index)
    THEN ConversionResult(markdown,
             Some(TruncationMetadata("complete", Len(markdown), total_length,
                                     None, None, << >>)))
    ELSE ConversionResult(markdown, None)

\* Steps 1 to 3 (sanitize_html, extract_main_content, html_to_markdown) are
\* a function of the HTML alone; full_markdown is the Markdown they produce
\* for the HTML of the call.  Step 4 (lines 449-457) is here, step 5 in
\* convert_from.
convert_html_to_markdown(full_markdown, max_length, truncation_window_ratio, start_index) ==
    IF IsNone(start_index)
    THEN convert_from(full_markdown, Len(full_markdown), max_length,
                      truncation_window_ratio, start_index, 0)
    ELSE IF offset_out_of_bounds(Get(start_index), Len(full_markdown))
    THEN OffsetError(Get(start_index), Len(full_markdown))
    ELSE convert_from(offset_markdown(full_markdown, Get(start_index)),
                      Len(full_markdown), max_length, truncation_window_ratio,
                      start_index, Get(start_index))

\* ------------------------------------------------------------------------
\* config.py and main.py: fetch_tool, single URL with a section
\* ------------------------------------------------------------------------

\* Config.fetch_max_length, the default.
FETCH_MAX_LENGTH == 50000

\* The partial result with the cursor left relative to the section.
section_truncated_local_cursor(section_content, section_offset, chars_total, headers, truncation_point) ==
    ConversionResult(
        balance_code_fences(Slice(section_content, 0, truncation_point)),
        Some(TruncationMetadata("partial",
                 Len(balance_code_fences(Slice(section_content, 0,
                                               truncation_point))),
                 chars_total,
                 Some(truncation_point),
                 get_current_section_path(headers, truncation_point),
                 get_remaining_sections(headers, truncation_point))))

\* main.py lines 294-307: the partial result for a section that was cut.
section_truncated(section_content, section_offset, chars_total, headers, truncation_point) ==
    ConversionResult(
        balance_code_fences(Slice(section_content, 0, truncation_point)),
        Some(TruncationMetadata("partial",
                 Len(balance_code_fences(Slice(section_content, 0,
                                               truncation_point))),
                 chars_total,
                 Some(section_offset + truncation_point),
                 get_current_section_path(headers, truncation_point),
                 get_remaining_sections(headers, truncation_point))))

\* main.py lines 287-318: max_length applied to the extracted section.
section_result(section_content, section_offset, chars_total, effective_max_length) ==
    IF Len(section_content) > effective_max_length
    THEN section_truncated(section_content, section_offset, chars_total,
             extract_section_headers(section_content),
             find_smart_truncation_point(section_content,
                 effective_max_length, DEFAULT_TRUNCATION_WINDOW_RATIO))
    ELSE ConversionResult(section_content,
             Some(TruncationMetadata("complete", Len(section_content),
                                     chars_total, None, None, << >>)))

\* main.py lines 268-273: extract_section, whose error ends the call.
section_of(extracted, chars_total, effective_max_length) ==
    IF ~extracted.found THEN extracted.raised
    ELSE section_result(extracted.content, extracted.start, chars_total,
                        effective_max_length)

\* main.py lines 263-271: the section is looked up in the full conversion.
section_in(full_conversion, effective_max_length, section_name) ==
    section_of(extract_section(full_conversion.content, section_name),
               Len(full_conversion.content), effective_max_length)

\* main.py lines 243 and 261-318: the conversion_result the section path
\* builds, or the SectionNotFoundError it turns into an error string.
fetch_tool_section(full_markdown, max_length, section_name) ==
    section_in(convert_html_to_markdown(full_markdown, None,
                   DEFAULT_TRUNCATION_WINDOW_RATIO, None),
               IF IsNone(max_length) THEN FETCH_MAX_LENGTH
               ELSE Get(max_length),
               section_name)

\* ------------------------------------------------------------------------
\* converter.py: sanitize_html
\* ------------------------------------------------------------------------

\* The parsed document is the sequence of its elements in document order,
\* each with its tag, the tokens of its class attribute, its id and its
\* inline style (None when the attribute is absent) and the index of its
\* parent (0 for a child of the root).  soup is the set of the elements
\* still in the tree.

TAB == "\t"

UNWANTED_TAGS ==
    << "script", "style", "nav", "footer", "aside", "header", "noscript",
       "iframe", "form", "svg", "canvas", "video", "audio" >>

UNWANTED_CLASSES ==
    << "sidebar", "navigation", "nav", "footer", "header", "menu", "ad",
       "advertisement", "social", "share", "comment", "comments", "related",
       "recommended", "popup", "modal", "cookie", "banner" >>

UNWANTED_IDS ==
    << "sidebar", "nav", "navigation", "footer", "header", "menu",
       "comments" >>

\* Lines 10-58: the three module-level lists.
DenyLists ==
    [ tags |-> UNWANTED_TAGS, classes |-> UNWANTED_CLASSES,
      ids |-> UNWANTED_IDS ]

\* The literal "display:none".
DISPLAY_NONE ==
    << "d", "i", "s", "p", "l", "a", "y", ":", "n", "o", "n", "e" >>

\* Is element i the element a or inside it?
RECURSIVE IsInside(_, _, _)
IsInside(elements, i, a) ==
    IF i = a THEN TRUE
    ELSE IF elements[i].parent = 0 THEN FALSE
    ELSE IsInside(elements, elements[i].parent, a)

\* element.decompose() for each element of found: they leave the tree with
\* their subtrees.
decompose(elements, soup, found) ==
    { i \in soup : \A a \in found : ~IsInside(elements, i, a) }

\* soup.find_all(tag_name)
find_all_tag(elements, soup, tag_name) ==
    { i \in soup : elements[i].tag = tag_name }

\* soup.find_all(class_=class_name): one of the class tokens is the name.
find_all_class(elements, soup, class_name) ==
    { i \in soup : \E k \in 1..Len(elements[i].class) :
                       elements[i].class[k] = class_name }

\* soup.find(id=id_name): the first element in document order with that
\* id, as a set of at most one element.
find_id(elements, soup, id_name) ==
    LET found == { i \in soup : elements[i].id = Some(id_name) }
    IN  IF found = {} THEN {} ELSE { MinOf(found) }

\* x.replace(" ", "")
RemoveSpaces(x) ==
    LET NotSpace(c) == c # SP IN SelectSeq(x, NotSpace)

\* pat in s
Contains(s, pat) == \E i \in 0..(Len(s) - Len(pat)) : StartsWithAt(s, pat, i)

\* Line 248: x and "display:none" in x.replace(" ", "")
style_is_hidden(x) ==
    /\ ~IsNone(x)
    /\ Get(x) # << >>
    /\ Contains(RemoveSpaces(Get(x)), DISPLAY_NONE)

\* soup.find_all(style=...)
find_all_hidden(elements, soup) ==
    { i \in soup : style_is_hidden(elements[i].style) }

\* Lines 231-233.
RECURSIVE remove_unwanted_tags(_, _, _)
remove_unwanted_tags(elements, soup, tags) ==
    IF tags = << >> THEN soup
    ELSE remove_unwanted_tags(elements,
             decompose(elements, soup,
                       find_all_tag(elements, soup, Head(tags))),
             Tail(tags))

\* Lines 236-238.
RECURSIVE remove_unwanted_classes(_, _, _)
remove_unwanted_classes(elements, soup, classes) ==
    IF classes = << >> THEN soup
    ELSE remove_unwanted_classes(elements,
             decompose(elements, soup,
                       find_all_class(elements, soup, Head(classes))),
             Tail(classes))

\* Lines 241-244.
RECURSIVE remove_unwanted_ids(_, _, _)
remove_unwanted_ids(elements, soup, ids) ==
    IF ids = << >> THEN soup
    ELSE remove_unwanted_ids(elements,
             decompose(elements, soup, find_id(elements, soup, Head(ids))),
             Tail(ids))

\* Lines 247-250.
remove_hidden(elements, soup) ==
    decompose(elements, soup, find_all_hidden(elements, soup))

\* The elements left in the tree that sanitize_html serializes.
sanitize_html(elements) ==
    remove_hidden(elements,
        remove_unwanted_ids(elements,
            remove_unwanted_classes(elements,
                remove_unwanted_tags(elements, 1..Len(elements),
                                     UNWANTED_TAGS),
                UNWANTED_CLASSES),
            UNWANTED_IDS))

\* sanitize_html reading the lists as the module holds them at the call.
sanitize_html_from(elements, lists) ==
    remove_hidden(elements,
        remove_unwanted_ids(elements,
            remove_unwanted_classes(elements,
                remove_unwanted_tags(elements, 1..Len(elements),
                                     lists.tags),
                lists.classes),
            lists.ids))

\* ------------------------------------------------------------------------
\* converter.py: extract_main_content
\* ------------------------------------------------------------------------

\* soup.find(...): the first element found in document order, as a set of
\* at most one element.
find_first(found) == IF found = {} THEN {} ELSE { MinOf(found) }

\* soup.find(attrs={"role": role})
find_all_role(elements, soup, role) ==
    { i \in soup : elements[i].role = Some(role) }

\* soup.find_all(id=id_name)
find_all_id(elements, soup, id_name) ==
    { i \in soup : elements[i].id = Some(id_name) }

\* Lines 269-280: the list of the ten lookups, each made on the whole tree.
content_selectors(elements, soup) ==
    << find_first(find_all_tag(elements, soup, "main")),
       find_first(find_all_tag(elements, soup, "article")),
       find_first(find_all_id(elements, soup, "content")),
       find_first(find_all_id(elements, soup, "main")),
       find_first(find_all_id(elements, soup, "main-content")),
       find_first(find_all_class(elements, soup, "content")),
       find_first(find_all_class(elements, soup, "main-content")),
       find_first(find_all_class(elements, soup, "article-content")),
       find_first(find_all_role(elements, soup, "main")),
       find_first(find_all_tag(elements, soup, "body")) >>

\* The container taken as the element that comes first in the document
\* among those the lookups found.
first_container_in_document(selectors) ==
    LET found == UNION { selectors[k] : k \in 1..Len(selectors) }
    IN  IF found = {} THEN None ELSE Some(MinOf(found))

\* Lines 282-287: the first lookup of the list that found an element gives
\* the container; None stands for the input returned as it is.
first_container(selectors) ==
    LET hits == { k \in 1..Len(selectors) : selectors[k] # {} }
    IN  IF hits = {} THEN None
        ELSE Some(MinOf(selectors[MinOf(hits)]))

\* The container whose serialization extract_main_content returns.
extract_main_content(elements) ==
    first_container(content_selectors(elements, 1..Len(elements)))

\* ------------------------------------------------------------------------
\* Inputs
\* ------------------------------------------------------------------------

\* The pieces documents are built from: a letter, a space, a newline, a
\* full stop, a code fence, a hash and a whole heading line.
DocBlocks ==
    { << "a" >>, << SP >>, << NL >>, << "." >>, FENCE, << HASH >>,
      << HASH, SP, "a", NL >> }

RECURSIVE Flatten(_)
Flatten(blocks) ==
    IF blocks = << >> THEN << >> ELSE Head(blocks) \o Flatten(Tail(blocks))

Docs ==
    { Flatten(bs) : bs \in UNION { [1..n -> DocBlocks] : n \in 0..MaxBlocks } }

Budgets == { None } \cup { Some(n) : n \in 0..MaxBudget }

\* Window ratios, in percent.
Ratios == { DEFAULT_TRUNCATION_WINDOW_RATIO, 50 }

SectionNames == { << "a" >>, << HASH, HASH, SP, "A" >>, << "b" >> }

\* ------------------------------------------------------------------------
\* State
\* ------------------------------------------------------------------------

VARIABLES
    html,          \* the element tree sanitize_html is given
    document,      \* the Markdown rendered from the HTML of the page
    max_length,    \* the max_length every call of the run passes
    window_ratio,  \* the truncation_window_ratio every call passes
    pc,            \* "ready", "chain", "offset" or "section"
    start_index,   \* the start_index argument of the last call
    section,       \* the section argument of the last call
    result,        \* what the last call returned or raised
    collected,     \* the contents returned along the chain, concatenated
    hops,          \* the calls made along the chain, counted up to MaxHops
    request,       \* the arguments of the tool or client call in progress
    pages,         \* what the community serves, by URL or by offset
    calls,         \* the calls made so far, in order: requests, stages
    tasks,         \* the page requests or convert calls in flight
    deny_lists     \* the module-level lists UNWANTED_TAGS, _CLASSES, _IDS

vars ==
    << html, document, max_length, window_ratio, pc, start_index, section,
       result, collected, hops, request, pages, calls, tasks, deny_lists >>

NoResult ==
    [ kind |-> "none", content |-> << >>, metadata |-> None, error |-> None ]

Init ==
    /\ html = << >>
    /\ document \in Docs
    /\ max_length \in Budgets
    /\ window_ratio \in Ratios
    /\ pc = "ready"
    /\ start_index = None
    /\ section = None
    /\ result = NoResult
    /\ collected = << >>
    /\ hops = 0
    /\ request = None
    /\ pages = << >>
    /\ calls = << >>
    /\ tasks = << >>
    /\ deny_lists = DenyLists

HasMetadata(r) == r.kind = "ConversionResult" /\ ~IsNone(r.metadata)

Meta(r) == Get(r.metadata)

\* The result carries a cursor to resume from.
HasCursor(r) == HasMetadata(r) /\ ~IsNone(Meta(r).next_start_index)

\* The first call of a continuation chain: convert with no start_index.
Start ==
    /\ pc = "ready"
    /\ result' = convert_html_to_markdown(document, max_length, window_ratio,
                                          None)
    /\ collected' = result'.content
    /\ start_index' = None
    /\ pc' = "chain"
    /\ hops' = 1
    /\ UNCHANGED << request, pages, calls, tasks >>
    /\ UNCHANGED deny_lists
    /\ UNCHANGED << html, document, max_length, window_ratio, section >>

\* The next call of the chain: convert with start_index = the previous
\* result's next_start_index.
Resume ==
    /\ pc = "chain"
    /\ HasCursor(result)
    /\ result' = convert_html_to_markdown(document, max_length, window_ratio,
                                          Meta(result).next_start_index)
    /\ collected' = collected \o result'.content
    /\ start_index' = Meta(result).next_start_index
    /\ hops' = Min(hops + 1, MaxHops)
    /\ UNCHANGED << request, pages, calls, tasks >>
    /\ UNCHANGED deny_lists
    /\ UNCHANGED << html, document, max_length, window_ratio, pc, section >>

\* A single call of convert with an arbitrary start_index.
ConvertAt(s) ==
    /\ pc = "ready"
    /\ result' = convert_html_to_markdown(document, max_length, window_ratio,
                                          Some(s))
    /\ start_index' = Some(s)
    /\ pc' = "offset"
    /\ UNCHANGED << request, pages, calls, tasks >>
    /\ UNCHANGED deny_lists
    /\ UNCHANGED << html, document, max_length, window_ratio, section,
                    collected, hops >>

\* A single-URL call of the fetch tool with a section name.
FetchSection(name) ==
    /\ pc = "ready"
    /\ result' = fetch_tool_section(document, max_length, name)
    /\ section' = Some(name)
    /\ pc' = "section"
    /\ UNCHANGED << request, pages, calls, tasks >>
    /\ UNCHANGED deny_lists
    /\ UNCHANGED << html, document, max_length, window_ratio, start_index,
                    collected, hops >>

Next ==
    \/ Start
    \/ Resume
    \/ \E s \in (-1)..(Len(document) + 1) : ConvertAt(s)
    \/ \E name \in SectionNames : FetchSection(name)

Spec == Init /\ [][Next]_vars

\* ------------------------------------------------------------------------
\* Properties of the continuation protocol
\* ------------------------------------------------------------------------

\* The last call was a call of convert_html_to_markdown.
ConvertCalled == pc \in { "chain", "offset" }

Returned == result.kind = "ConversionResult"

\* The offset the last call worked from.
EffectiveStart == IF IsNone(start_index) THEN 0 ELSE Get(start_index)

IsPartial(r) == HasMetadata(r) /\ Meta(r).status = "partial"

IsComplete(r) == HasMetadata(r) /\ Meta(r).status = "complete"

\* The chain has made its last call: there is no cursor to resume from.
ChainEnded == pc = "chain" /\ ~HasCursor(result)

\* C1: round-trip completeness.  When a chain that started without a
\* start_index and always resumed at the previous next_start_index has made
\* its last call, the concatenation of the returned contents is exactly the
\* full rendered Markdown, and that last call reports status complete or
\* carries no metadata.
C1_RoundTrip ==
    ChainEnded =>
        /\ collected = document
        /\ (IsNone(result.metadata) \/ IsComplete(result))

\* C2: whenever convert is called with a max_length, the returned content
\* (and chars_returned, when metadata is present) is no longer than
\* max_length.
C2_ContentWithinBudget ==
    (ConvertCalled /\ Returned /\ ~IsNone(max_length)) =>
        /\ Len(result.content) <= Get(max_length)
        /\ (HasMetadata(result) =>
                Meta(result).chars_returned <= Get(max_length))

\* C3: the continuation chain terminates.  convert is a function of its
\* arguments and every cursor is an offset below the document length, so a
\* chain that terminates never passes the same start twice: it makes at
\* most one call without start_index and one per offset of the document.
\* The chain exceeding that number of calls is the chain that never ends.
C3_ChainTerminates ==
    pc = "chain" => hops <= Len(document) + 1

\* C4: every partial result of convert has its cursor strictly between the
\* effective start of the call and the total length.
C4_CursorAdvances ==
    (ConvertCalled /\ IsPartial(result)) =>
        /\ ~IsNone(Meta(result).next_start_index)
        /\ EffectiveStart < Get(Meta(result).next_start_index)
        /\ Get(Meta(result).next_start_index) < Meta(result).chars_total

\* C5: convert raises OffsetError exactly when a start_index is given that
\* is negative or at least the total rendered length; the error carries the
\* requested index and the total length, and nothing is returned.
C5_OffsetErrorExactly ==
    ConvertCalled =>
        /\ result.kind = "OffsetError" <=>
               /\ ~IsNone(start_index)
               /\ (Get(start_index) < 0 \/ Get(start_index) >= Len(document))
        /\ result.kind = "OffsetError" =>
               /\ Get(result.error).start_index = Get(start_index)
               /\ Get(result.error).document_length = Len(document)
               /\ IsNone(result.metadata)
               /\ result.content = << >>
        /\ result.kind # "OffsetError" => Returned /\ IsNone(result.error)

\* C5 witness: a call at start_index = total length of a non-empty document
\* was refused.
C5_Witness ==
    /\ pc = "offset"
    /\ Len(document) > 0
    /\ start_index = Some(Len(document))
    /\ result.kind = "OffsetError"

\* The call under C6: start_index = L - 1 and no max_length.
LastOffsetCall ==
    /\ pc = "offset"
    /\ IsNone(max_length)
    /\ start_index = Some(Len(document) - 1)

\* C6 as stated: for every document of rendered length L, convert at
\* start_index = L - 1 without max_length succeeds, returns exactly the
\* last character and reports metadata with status complete.
C6_LastCharacter ==
    LastOffsetCall =>
        /\ Returned
        /\ result.content = << document[Len(document)] >>
        /\ IsComplete(result)

\* C6 amended: for L >= 2 the call returns exactly the last character with
\* status complete (and no cursor); for L = 1 it returns that character
\* with no metadata at all; for L = 0 it raises OffsetError.
C6_LastCharacterAmended ==
    LastOffsetCall =>
        /\ Len(document) >= 1 =>
               Returned /\ result.content = << document[Len(document)] >>
        /\ Len(document) >= 2 =>
               /\ IsComplete(result)
               /\ IsNone(Meta(result).next_start_index)
               /\ Meta(result).chars_returned = 1
        /\ Len(document) = 1 => IsNone(result.metadata)
        /\ Len(document) = 0 => result.kind = "OffsetError"

\* C6 witness: the last character of a document of two or more characters
\* was returned with status complete.
C6_Witness ==
    /\ LastOffsetCall
    /\ Len(document) >= 2
    /\ IsComplete(result)
    /\ Len(result.content) = 1

\* What convert returns for the same document and budget without a
\* start_index.
WithoutStartIndex ==
    convert_html_to_markdown(document, max_length, window_ratio, None)

\* C7 as stated: for every document, convert with start_index = 0 and
\* convert without start_index have the same outcome: identical content
\* and, when no truncation applies, absent metadata in both.
C7_ZeroOffsetEquivalence ==
    (pc = "offset" /\ start_index = Some(0)) =>
        /\ result.kind = WithoutStartIndex.kind
        /\ result.content = WithoutStartIndex.content
        /\ ~IsPartial(WithoutStartIndex) =>
               IsNone(result.metadata) /\ IsNone(WithoutStartIndex.metadata)

\* C7 amended: the equivalence holds for every document whose rendered
\* Markdown is not empty (and then the two results are equal, metadata
\* included); for an empty rendering start_index = 0 raises OffsetError
\* while the call without start_index returns the empty content.
C7_ZeroOffsetEquivalenceAmended ==
    (pc = "offset" /\ start_index = Some(0)) =>
        /\ Len(document) > 0 =>
               /\ result = WithoutStartIndex
               /\ ~IsPartial(WithoutStartIndex) => IsNone(result.metadata)
        /\ Len(document) = 0 =>
               /\ result.kind = "OffsetError"
               /\ WithoutStartIndex = ConversionResult(<< >>, None)

\* C7 witness: an untruncated call at start_index = 0 on a non-empty
\* document returned the whole document without metadata.
C7_Witness ==
    /\ pc = "offset"
    /\ start_index = Some(0)
    /\ Len(document) > 0
    /\ Returned
    /\ IsNone(result.metadata)
    /\ result.content = document

\* The text the last call was asked for: the document from the effective
\* start on, or the named section.
RequestedText ==
    IF pc = "section" THEN extract_section(document, Get(section)).content
    ELSE SliceFrom(document, EffectiveStart)

\* The offset in the document at which the requested text starts.
RequestedOffset ==
    IF pc = "section" THEN extract_section(document, Get(section)).start
    ELSE EffectiveStart

\* A length-budget cut occurred: the call returned something other than
\* all of the text it was asked for.
CutOccurred == result.content # RequestedText

\* C8: in every ConversionResult, metadata is absent iff no cut occurred in
\* the call and the caller did not start from a nonzero offset; absent
\* metadata means the content is the complete document.
C8_MetadataAbsentIff ==
    (pc # "ready" /\ Returned) =>
        /\ IsNone(result.metadata) <=> (~CutOccurred /\ RequestedOffset = 0)
        /\ IsNone(result.metadata) => result.content = document

\* C9: in every result that carries metadata, on the offset path, the
\* truncation path and the section path, chars_returned is the length of
\* the returned content, the text appended by fence repair included.
C9_CharsReturnedIsLength ==
    HasMetadata(result) => Meta(result).chars_returned = Len(result.content)

\* C9 witness: a partial result whose content was extended by fence repair.
C9_Witness ==
    /\ IsPartial(result)
    /\ Len(result.content) >
           Get(Meta(result).next_start_index) - RequestedOffset
    /\ Meta(result).chars_returned = Len(result.content)

\* C10: next_start_index is absolute.  For a partial result of convert with
\* effective start s, it is s + c, c being the cut offset found in the
\* suffix of the document from s on, and the content is the slice of the
\* document from s to s + c (fence-repaired), however many hops came before.
C10_CursorIsAbsolute ==
    (ConvertCalled /\ IsPartial(result)) =>
        LET s == EffectiveStart
            c == find_smart_truncation_point(SliceFrom(document, s),
                                             Get(max_length), window_ratio)
        IN  /\ Meta(result).next_start_index = Some(s + c)
            /\ result.content = balance_code_fences(Slice(document, s, s + c))

\* C10 witness: a partial result on the third or a later hop of a chain,
\* from a nonzero start.
C10_Witness ==
    /\ pc = "chain"
    /\ hops >= 3
    /\ EffectiveStart > 0
    /\ IsPartial(result)
    /\ Get(Meta(result).next_start_index) > EffectiveStart

\* ------------------------------------------------------------------------
\* Properties of the metadata
\* ------------------------------------------------------------------------

\* C11: whenever metadata is present, on the offset path, the truncation
\* path and the section path, chars_total is the length of the full
\* rendered document, so every hop of a chain over the same document
\* reports the same value.
C11_CharsTotalIsFullLength ==
    HasMetadata(result) => Meta(result).chars_total = Len(document)

\* C11 witness: a later hop of a chain, working on a proper suffix of the
\* document, was cut again and reports the length of the whole document.
C11_Witness ==
    /\ pc = "chain"
    /\ hops >= 2
    /\ EffectiveStart > 0
    /\ IsPartial(result)
    /\ Meta(result).chars_total = Len(document)
    /\ Meta(result).chars_total > Len(SliceFrom(document, EffectiveStart))

\* How much of the document the last call consumed: up to its cursor, or
\* all of the returned content when there is no cursor.
Consumed ==
    IF HasCursor(result)
    THEN Get(Meta(result).next_start_index) - RequestedOffset
    ELSE Len(result.content)

\* The part of the document after what the last call returned.
Remaining == SliceFrom(document, RequestedOffset + Consumed)

\* C12: status and cursor agree with what remains, for offset-based and
\* section-based retrieval.  With metadata present: status is partial iff a
\* length-budget cut occurred, and then there is a cursor; a complete status
\* or an absent cursor means that nothing of the document remains after the
\* returned content (whitespace trimmed from the end of a section is not
\* counted as remaining); and content that reaches the end of the document
\* is reported complete.
C12_StatusAgreesWithRemainder ==
    (pc # "ready" /\ HasMetadata(result)) =>
        /\ IsPartial(result) <=> CutOccurred
        /\ IsPartial(result) => HasCursor(result)
        /\ IsComplete(result) => Strip(Remaining) = << >>
        /\ ~HasCursor(result) => Strip(Remaining) = << >>
        /\ Remaining = << >> => IsComplete(result)

\* The budget of the section call: max_length, or the configured default.
SectionBudget ==
    IF IsNone(max_length) THEN FETCH_MAX_LENGTH ELSE Get(max_length)

\* The result of the section call is the section ex of the document, cut at
\* the point c of the section.
IsSectionCutAt(ex, c) ==
    /\ HasMetadata(result)
    /\ Meta(result).status = "partial"
    /\ Meta(result).next_start_index = Some(ex.start + c)
    /\ result.content
           = balance_code_fences(Slice(document, ex.start, ex.start + c))
    /\ Meta(result).chars_total = Len(document)
    /\ ex.start + c < Len(document)

\* C23: when the section asked for is longer than max_length, the cut is
\* the one find_smart_truncation_point finds in the section alone, the
\* content is the document from the section's start_offset up to
\* start_offset + cut (with its code fences balanced), next_start_index is
\* start_offset + cut, which lies inside the document, and chars_total is
\* the length of the whole document.
C23_SectionCursorIsAbsolute ==
    (pc = "section"
     /\ extract_section(document, Get(section)).found
     /\ Len(extract_section(document, Get(section)).content) > SectionBudget)
    => IsSectionCutAt(extract_section(document, Get(section)),
           find_smart_truncation_point(
               extract_section(document, Get(section)).content,
               SectionBudget, DEFAULT_TRUNCATION_WINDOW_RATIO))

\* C23 witness: a section that starts after the beginning of the document
\* and ends before its end was cut after at least one character.
C23_Witness ==
    /\ pc = "section"
    /\ HasCursor(result)
    /\ extract_section(document, Get(section)).found
    /\ extract_section(document, Get(section)).start > 0
    /\ Get(Meta(result).next_start_index)
           > extract_section(document, Get(section)).start
    /\ extract_section(document, Get(section)).start
           + Len(extract_section(document, Get(section)).content)
           < Len(document)
    /\ Meta(result).chars_total
           > Len(extract_section(document, Get(section)).content)

\* ------------------------------------------------------------------------
\* find_smart_truncation_point called directly
\* ------------------------------------------------------------------------

\* The pieces of the texts: a letter, a space, a newline, a paragraph
\* break, a full stop and the three sentence ends.
CutBlocks ==
    { << "a" >>, << SP >>, << NL >>, << NL, NL >>, << "." >>, << ".", SP >>,
      << "!", SP >>, << "?", SP >> }

CutTexts ==
    { Flatten(bs) :
          bs \in UNION { [1..n -> CutBlocks] : n \in 0..MaxCutBlocks } }

CutBudgets == { Some(n) : n \in 0..MaxCutBudget }

\* Window ratios, in percent.
CutRatios == Ratios \cup { 90 }

CutInit ==
    /\ html = << >>
    /\ document \in CutTexts
    /\ max_length \in CutBudgets
    /\ window_ratio \in CutRatios
    /\ pc = "ready"
    /\ start_index = None
    /\ section = None
    /\ result = NoResult
    /\ collected = << >>
    /\ hops = 0
    /\ request = None
    /\ pages = << >>
    /\ calls = << >>
    /\ tasks = << >>
    /\ deny_lists = DenyLists

\* find_smart_truncation_point(document, max_length, window_ratio).
FindCut ==
    /\ pc = "ready"
    /\ result' = [ kind |-> "truncation_point",
                   value |-> find_smart_truncation_point(document,
                                 Get(max_length), window_ratio) ]
    /\ pc' = "cut"
    /\ UNCHANGED << request, pages, calls, tasks >>
    /\ UNCHANGED deny_lists
    /\ UNCHANGED << html, document, max_length, window_ratio, start_index,
                    section, collected, hops >>

CutNext == FindCut

CutSpec == CutInit /\ [][CutNext]_vars

\* The start of the search window.
WindowStart ==
    Max(0, Get(max_length) - (Get(max_length) * window_ratio) \div 100)

\* The offsets in the document at which pat occurs wholly inside the window
\* [WindowStart, max_length).
BoundaryHits(pat) ==
    { p \in WindowStart..(Min(Get(max_length), Len(document)) - Len(pat)) :
          StartsWithAt(document, pat, p) }

\* The greatest element of a non-empty set of integers.
LastOf(S) == CHOOSE x \in S : \A y \in S : y <= x

\* The offset just after the last occurrence of pat in the window.
AfterLast(pat) == LastOf(BoundaryHits(pat)) + Len(pat)

\* C13: the cut is chosen by strict priority, not by position.  In the
\* window the last paragraph break wins, else the last line break, else the
\* last ". ", else the last "! ", else the last "? ", else the last space;
\* the offset returned is the one just after the boundary, and max_length
\* when the window holds none of them.
C13_StrictPriority ==
    pc = "cut" =>
        result.value =
            IF BoundaryHits(<< NL, NL >>) # {} THEN AfterLast(<< NL, NL >>)
            ELSE IF BoundaryHits(<< NL >>) # {} THEN AfterLast(<< NL >>)
            ELSE IF BoundaryHits(<< ".", SP >>) # {}
            THEN AfterLast(<< ".", SP >>)
            ELSE IF BoundaryHits(<< "!", SP >>) # {}
            THEN AfterLast(<< "!", SP >>)
            ELSE IF BoundaryHits(<< "?", SP >>) # {}
            THEN AfterLast(<< "?", SP >>)
            ELSE IF BoundaryHits(<< SP >>) # {} THEN AfterLast(<< SP >>)
            ELSE Get(max_length)

\* C13 witness: the window holds a ". " and a later "! ", and the cut was
\* made after the ". ".
C13_Witness ==
    /\ pc = "cut"
    /\ BoundaryHits(<< ".", SP >>) # {}
    /\ BoundaryHits(<< "!", SP >>) # {}
    /\ LastOf(BoundaryHits(<< "!", SP >>)) > LastOf(BoundaryHits(<< ".", SP >>))
    /\ result.value = AfterLast(<< ".", SP >>)

\* The boundaries the search knows.
Boundaries ==
    { << NL, NL >>, << NL >>, << ".", SP >>, << "!", SP >>, << "?", SP >>,
      << SP >> }

\* C14: for every text, max_length >= 0 and ratio in (0, 1) the offset r
\* returned is at most max_length, and it is max_length or lies after the
\* window start, just after a boundary that starts at or after the window
\* start: a boundary before the window is never chosen.
C14_CutWithinWindow ==
    pc = "cut" =>
        /\ result.value <= Get(max_length)
        /\ \/ result.value = Get(max_length)
           \/ /\ WindowStart < result.value
              /\ \E pat \in Boundaries :
                     /\ result.value - Len(pat) >= WindowStart
                     /\ StartsWithAt(document, pat, result.value - Len(pat))

\* C14 witness: the only boundary of the prefix lies before the window, and
\* the cut was made at max_length.
C14_Witness ==
    /\ pc = "cut"
    /\ Get(max_length) <= Len(document)
    /\ \E p \in 0..(WindowStart - 1) : StartsWithAt(document, << SP >>, p)
    /\ \A pat \in Boundaries : BoundaryHits(pat) = {}
    /\ result.value = Get(max_length)

\* ------------------------------------------------------------------------
\* balance_code_fences called directly, and through convert
\* ------------------------------------------------------------------------

\* The pieces of the texts: a backtick, a fence, a letter and a newline.
FenceBlocks == { << TICK >>, FENCE, << "a" >>, << NL >> }

FenceTexts ==
    { Flatten(bs) :
          bs \in UNION { [1..n -> FenceBlocks] : n \in 0..MaxFenceBlocks } }

FenceInit ==
    /\ html = << >>
    /\ document \in FenceTexts
    /\ max_length \in Budgets
    /\ window_ratio \in Ratios
    /\ pc = "ready"
    /\ start_index = None
    /\ section = None
    /\ result = NoResult
    /\ collected = << >>
    /\ hops = 0
    /\ request = None
    /\ pages = << >>
    /\ calls = << >>
    /\ tasks = << >>
    /\ deny_lists = DenyLists

\* balance_code_fences(document).
BalanceFences ==
    /\ pc = "ready"
    /\ result' = [ kind |-> "balanced",
                   content |-> balance_code_fences(document) ]
    /\ pc' = "balanced"
    /\ UNCHANGED << request, pages, calls, tasks >>
    /\ UNCHANGED deny_lists
    /\ UNCHANGED << html, document, max_length, window_ratio, start_index,
                    section, collected, hops >>

\* balance_code_fences applied to its own result.
BalanceAgain ==
    /\ pc = "balanced"
    /\ result' = [ kind |-> "balanced",
                   content |-> balance_code_fences(result.content) ]
    /\ pc' = "rebalanced"
    /\ UNCHANGED << request, pages, calls, tasks >>
    /\ UNCHANGED deny_lists
    /\ UNCHANGED << html, document, max_length, window_ratio, start_index,
                    section, collected, hops >>

FenceNext ==
    \/ BalanceFences
    \/ BalanceAgain
    \/ Start
    \/ Resume

FenceSpec == FenceInit /\ [][FenceNext]_vars

\* The literal the repaired text ends with.
TRUNCATED_MARKER ==
    << "[", "C", "o", "d", "e", SP, "b", "l", "o", "c", "k", SP, "t", "r",
       "u", "n", "c", "a", "t", "e", "d", "]" >>

EvenFences(s) == Count(s, FENCE) % 2 = 0

EndsWith(s, suffix) ==
    /\ Len(suffix) <= Len(s)
    /\ SubSeq(s, Len(s) - Len(suffix) + 1, Len(s)) = suffix

\* C15: balance_code_fences is the identity on a text with an even number
\* of fence markers; on a text with an odd number its result has an even
\* number and ends with [Code block truncated]; applied to its own result
\* it changes nothing; and every truncated content convert returns has an
\* even number of fence markers.
C15_FenceBalance ==
    /\ pc = "balanced" =>
           IF EvenFences(document) THEN result.content = document
           ELSE /\ EvenFences(result.content)
                /\ EndsWith(result.content, TRUNCATED_MARKER)
    /\ pc = "rebalanced" => result.content = balance_code_fences(document)
    /\ (pc = "chain" /\ IsPartial(result)) => EvenFences(result.content)

\* C15 witness: a text with an odd number of fence markers that ends in
\* backticks was repaired, and the repair was applied a second time.
C15_Witness ==
    /\ pc = "rebalanced"
    /\ ~EvenFences(document)
    /\ EndsWith(document, << TICK >>)
    /\ EvenFences(result.content)
    /\ EndsWith(result.content, TRUNCATED_MARKER)

\* ------------------------------------------------------------------------
\* extract_section called directly
\* ------------------------------------------------------------------------

\* How many section names the message of SectionNotFoundError lists.
MAX_LISTED_SECTIONS == 10

\* The pieces of the documents: headings of two levels, one of them with a
\* text that contains another, a line of body text, a newline and a space.
SectionBlocks ==
    { << HASH, SP, "a", NL >>, << HASH, HASH, SP, "a", NL >>,
      << HASH, HASH, SP, "B", NL >>, << HASH, SP, "a", "b", NL >>,
      << "b", NL >>, << NL >>, << SP >> }

\* A document with more headings than the message lists.
ManyHeadings ==
    Flatten([ i \in 1..(MAX_LISTED_SECTIONS + 1) |-> << HASH, SP, "a", NL >> ])

SectionTexts ==
    { Flatten(bs) :
          bs \in UNION { [1..n -> SectionBlocks] : n \in 0..MaxSectionBlocks } }
    \cup { ManyHeadings }

\* The names asked for: plain, with a hash prefix and in upper case, with
\* surrounding spaces, of no heading, and a bare hash.
SectionQueries ==
    { << "a" >>, << HASH, HASH, SP, "A" >>, << SP, "b", SP >>, << "c" >>,
      << HASH >> }

SectionInit ==
    /\ html = << >>
    /\ document \in SectionTexts
    /\ max_length = None
    /\ window_ratio = DEFAULT_TRUNCATION_WINDOW_RATIO
    /\ pc = "ready"
    /\ start_index = None
    /\ section = None
    /\ result = NoResult
    /\ collected = << >>
    /\ hops = 0
    /\ request = None
    /\ pages = << >>
    /\ calls = << >>
    /\ tasks = << >>
    /\ deny_lists = DenyLists

\* extract_section(document, name).
ExtractSection(name) ==
    /\ pc = "ready"
    /\ result' = [ kind |-> "extract_section",
                   value |-> extract_section(document, name) ]
    /\ section' = Some(name)
    /\ pc' = "extracted"
    /\ UNCHANGED << request, pages, calls, tasks >>
    /\ UNCHANGED deny_lists
    /\ UNCHANGED << html, document, max_length, window_ratio, start_index,
                    collected, hops >>

SectionNext == \E name \in SectionQueries : ExtractSection(name)

SectionSpec == SectionInit /\ [][SectionNext]_vars

\* The headings of the document, in document order.
Headings == HeadersFrom(document, 0)

\* What extract_section returned or raised.
Extracted == result.value

\* The requested name without its leading hashes and surrounding
\* whitespace, in lower case.
NormalizedName == Lower(Strip(LStripHash(Get(section))))

\* The headings among hs whose text is the name.
MatchingIn(hs, name) == { i \in 1..Len(hs) : Lower(hs[i].text) = name }

\* Where the section of heading i of hs ends: at the next heading of the
\* same or a higher level, or at the end of the document.
SpanEndIn(hs, i) ==
    LET closing == { j \in (i + 1)..Len(hs) : hs[j].level <= hs[i].level }
    IN  IF closing = {} THEN Len(document) ELSE hs[MinOf(closing)].start

\* The section e is the span of heading i of hs.
IsSpanOf(e, hs, i, span_end) ==
    /\ e.start = hs[i].start
    /\ e.content = RStrip(Slice(document, hs[i].start, span_end))
    /\ \A j \in 1..Len(hs) :
           (hs[i].start < hs[j].start /\ hs[j].start < span_end)
               => hs[j].level > hs[i].level
    /\ span_end < Len(document) =>
           \E j \in 1..Len(hs) :
               hs[j].start = span_end /\ hs[j].level <= hs[i].level

\* The section e is the span of one of the headings of hs with the name.
IsSpanAmong(e, hs, name) ==
    \E i \in MatchingIn(hs, name) : IsSpanOf(e, hs, i, SpanEndIn(hs, i))

\* C16: the section returned starts at the offset of a heading with the
\* requested text and ends at the next heading whose level is at most that
\* heading's level, or at the end of the document; every heading inside the
\* span is deeper; the content is that substring right-trimmed, and the
\* start offset returned is the heading's offset in the document.
C16_SectionSpan ==
    (pc = "extracted" /\ Extracted.found) =>
        IsSpanAmong(Extracted, Headings, NormalizedName)

\* The section e has a heading of hs inside it and one after it.
HasNestedAndFollowing(e, hs) ==
    /\ \E j \in 1..Len(hs) :
           e.start < hs[j].start /\ hs[j].start < e.start + Len(e.content)
    /\ \E j \in 1..Len(hs) :
           /\ hs[j].start >= e.start + Len(e.content)
           /\ hs[j].start < Len(document)

\* C16 witness: a section with a deeper heading inside it, closed by a
\* heading of its own level.
C16_Witness ==
    /\ pc = "extracted"
    /\ Extracted.found
    /\ HasNestedAndFollowing(Extracted, Headings)

\* The section e is the span of the first of the matching headings.
IsFirstMatch(e, hs, matching) ==
    /\ matching # {}
    /\ e.start = hs[MinOf(matching)].start
    /\ e.content =
           RStrip(Slice(document, e.start, SpanEndIn(hs, MinOf(matching))))

IsFirstMatchAmong(e, hs, name) == IsFirstMatch(e, hs, MatchingIn(hs, name))

\* C17: the requested name, stripped of leading hashes and surrounding
\* whitespace and lowercased, is compared for equality with the lowercased
\* heading texts, never as a substring; of several headings with that text,
\* also at different levels, the first in document order is taken and its
\* level sets the end of the section.
C17_FirstExactMatch ==
    (pc = "extracted" /\ Extracted.found) =>
        IsFirstMatchAmong(Extracted, Headings, NormalizedName)

\* Two headings of different levels are among the matching ones, and the
\* section e starts at the first of them.
FirstOfTwoLevels(e, hs, matching) ==
    \E i, j \in matching :
        /\ i < j
        /\ hs[i].level # hs[j].level
        /\ e.start = hs[i].start
        /\ e.start < hs[j].start

FirstOfTwoLevelsAmong(e, hs, name) ==
    FirstOfTwoLevels(e, hs, MatchingIn(hs, name))

\* C17 witness: two headings of different levels carry the requested text,
\* which was given in another case and with a hash prefix, and the first of
\* them was taken.
C17_Witness ==
    /\ pc = "extracted"
    /\ Extracted.found
    /\ Get(section) # NormalizedName
    /\ FirstOfTwoLevelsAmong(Extracted, Headings, NormalizedName)

\* The section was not found exactly when no heading matches, and the
\* error raised carries the name as given and the texts of all of hs.
NotFoundExactly(e, hs, matching) ==
    /\ ~e.found <=> matching = {}
    /\ ~e.found =>
           /\ e.raised.kind = "SectionNotFoundError"
           /\ Get(e.raised.error).section_name = Get(section)
           /\ Get(e.raised.error).available_sections =
                  [ i \in 1..Len(hs) |-> hs[i].text ]

NotFoundExactlyAmong(e, hs, name) ==
    NotFoundExactly(e, hs, MatchingIn(hs, name))

\* C18: extract_section raises SectionNotFoundError exactly when no heading
\* text equals the normalized name; the error carries the requested name as
\* it was given and the texts of all headings in document order, however
\* many there are.
C18_SectionNotFoundExactly ==
    pc = "extracted" =>
        NotFoundExactlyAmong(Extracted, Headings, NormalizedName)

\* C18 witness: a name that differs from its normalized form was not found
\* in a document with more headings than the message lists.
C18_Witness ==
    /\ pc = "extracted"
    /\ ~Extracted.found
    /\ Get(section) # NormalizedName
    /\ Len(Headings) > MAX_LISTED_SECTIONS
    /\ Len(Get(Extracted.raised.error).available_sections) = Len(Headings)

\* ------------------------------------------------------------------------
\* sanitize_html called directly
\* ------------------------------------------------------------------------

Element(tag, class, id, style) ==
    [ tag |-> tag, class |-> class, id |-> id, style |-> style ]

\* The elements trees are built from: a paragraph, a script, a div with a
\* deny-listed class, a div with a class that only contains a deny-listed
\* name, a div with a deny-listed id, and divs hidden by display:none
\* written without whitespace, with a space and with a tab.
ElementKinds ==
    { Element("p", << >>, None, None),
      Element("script", << >>, None, None),
      Element("div", << "nav" >>, None, None),
      Element("div", << "navbar" >>, None, None),
      Element("div", << >>, Some("sidebar"), None),
      Element("div", << >>, None, Some(DISPLAY_NONE)),
      Element("div", << >>, None,
              Some(SubSeq(DISPLAY_NONE, 1, 8) \o << SP >>
                       \o SubSeq(DISPLAY_NONE, 9, 12))),
      Element("div", << >>, None,
              Some(SubSeq(DISPLAY_NONE, 1, 8) \o << TAB >>
                       \o SubSeq(DISPLAY_NONE, 9, 12))) }

\* The elements a tree of n elements can hold: a kind and a parent.
Nodes(n) ==
    { [ tag |-> k.tag, class |-> k.class, id |-> k.id, style |-> k.style,
        parent |-> q ] : k \in ElementKinds, q \in 0..(n - 1) }

\* The elements are numbered in document order: the parent of an element
\* is the root, the element before it or one of that element's ancestors.
WellFormed(elements) ==
    \A i \in 1..Len(elements) :
        /\ elements[i].parent < i
        /\ (i > 1 /\ elements[i].parent # 0)
               => IsInside(elements, i - 1, elements[i].parent)

\* The trees with n elements.
HtmlTrees(n) == { t \in [1..n -> Nodes(n)] : WellFormed(t) }

SanitizeInit ==
    /\ \E n \in 0..MaxElements : html \in HtmlTrees(n)
    /\ document = << >>
    /\ max_length = None
    /\ window_ratio = DEFAULT_TRUNCATION_WINDOW_RATIO
    /\ pc = "ready"
    /\ start_index = None
    /\ section = None
    /\ result = NoResult
    /\ collected = << >>
    /\ hops = 0
    /\ request = None
    /\ pages = << >>
    /\ calls = << >>
    /\ tasks = << >>
    /\ deny_lists = DenyLists

\* sanitize_html(html).
Sanitize ==
    /\ pc = "ready"
    /\ result' = [ kind |-> "sanitize_html", value |-> sanitize_html(html) ]
    /\ pc' = "sanitized"
    /\ UNCHANGED << request, pages, calls, tasks >>
    /\ UNCHANGED deny_lists
    /\ UNCHANGED << html, document, max_length, window_ratio, start_index,
                    section, collected, hops >>

SanitizeNext == Sanitize

SanitizeSpec == SanitizeInit /\ [][SanitizeNext]_vars

\* The elements sanitize_html left in the tree.
Sanitized == result.value

InSeq(x, names) == \E k \in 1..Len(names) : names[k] = x

HasUnwantedTag(e) == InSeq(e.tag, UNWANTED_TAGS)

HasUnwantedClass(e) ==
    \E k \in 1..Len(e.class) : InSeq(e.class[k], UNWANTED_CLASSES)

HasUnwantedId(e) == ~IsNone(e.id) /\ InSeq(Get(e.id), UNWANTED_IDS)

\* The inline style, all whitespace stripped, contains display:none.
HiddenByStyle(e) ==
    LET NotWhite(c) == c \notin { SP, TAB, NL }
    IN  /\ ~IsNone(e.style)
        /\ Contains(SelectSeq(Get(e.style), NotWhite), DISPLAY_NONE)

\* C19: after sanitize_html the tree holds no element with a deny-listed
\* tag, none with a deny-listed class token and none whose inline style,
\* all whitespace stripped, contains display:none; an element leaves with
\* its whole subtree; and every element that matches no criterion and has
\* no removed ancestor is kept.
C19_SanitizedTree ==
    pc = "sanitized" =>
        /\ \A i \in Sanitized :
               /\ ~HasUnwantedTag(html[i])
               /\ ~HasUnwantedClass(html[i])
               /\ ~HiddenByStyle(html[i])
               /\ html[i].parent # 0 => html[i].parent \in Sanitized
        /\ \A i \in 1..Len(html) :
               ( /\ ~HasUnwantedTag(html[i])
                 /\ ~HasUnwantedClass(html[i])
                 /\ ~HasUnwantedId(html[i])
                 /\ ~HiddenByStyle(html[i])
                 /\ (html[i].parent = 0 \/ html[i].parent \in Sanitized) )
                   => i \in Sanitized

PassNames == { "tags", "classes", "ids", "hidden" }

\* The orders in which the four passes can be made.
PassOrders ==
    { o \in [1..4 -> PassNames] : \A i, j \in 1..4 : o[i] = o[j] => i = j }

RunPass(name, elements, soup) ==
    CASE name = "tags" -> remove_unwanted_tags(elements, soup, UNWANTED_TAGS)
      [] name = "classes" ->
             remove_unwanted_classes(elements, soup, UNWANTED_CLASSES)
      [] name = "ids" -> remove_unwanted_ids(elements, soup, UNWANTED_IDS)
      [] name = "hidden" -> remove_hidden(elements, soup)

RECURSIVE RunPasses(_, _, _)
RunPasses(order, elements, soup) ==
    IF order = << >> THEN soup
    ELSE RunPasses(Tail(order), elements,
                   RunPass(Head(order), elements, soup))

MainElement(tag, class, id, role) ==
    [ tag |-> tag, class |-> class, id |-> id, role |-> role ]

\* One element for each of the ten lookups, the class ones with a second
\* class token, and a paragraph whose class only contains the name content.
MainKinds ==
    { MainElement("main", << >>, None, None),
      MainElement("article", << >>, None, None),
      MainElement("div", << >>, Some("content"), None),
      MainElement("div", << >>, Some("main"), None),
      MainElement("div", << >>, Some("main-content"), None),
      MainElement("div", << "wide", "content" >>, None, None),
      MainElement("div", << "main-content" >>, None, None),
      MainElement("div", << "article-content" >>, None, None),
      MainElement("div", << >>, None, Some("main")),
      MainElement("body", << >>, None, None),
      MainElement("p", << "contents" >>, None, None) }

MainNodes(n) ==
    { [ tag |-> k.tag, class |-> k.class, id |-> k.id, role |-> k.role,
        parent |-> q ] : k \in MainKinds, q \in 0..(n - 1) }

\* The trees with n elements.
MainTrees(n) == { t \in [1..n -> MainNodes(n)] : WellFormed(t) }

MainInit ==
    /\ \E n \in 0..MaxMainElements : html \in MainTrees(n)
    /\ document = << >>
    /\ max_length = None
    /\ window_ratio = DEFAULT_TRUNCATION_WINDOW_RATIO
    /\ pc = "ready"
    /\ start_index = None
    /\ section = None
    /\ result = NoResult
    /\ collected = << >>
    /\ hops = 0
    /\ request = None
    /\ pages = << >>
    /\ calls = << >>
    /\ tasks = << >>
    /\ deny_lists = DenyLists

\* extract_main_content(html).
ExtractMain ==
    /\ pc = "ready"
    /\ result' = [ kind |-> "extract_main_content",
                   value |-> extract_main_content(html) ]
    /\ pc' = "main"
    /\ UNCHANGED << request, pages, calls, tasks >>
    /\ UNCHANGED deny_lists
    /\ UNCHANGED << html, document, max_length, window_ratio, start_index,
                    section, collected, hops >>

MainNext == ExtractMain

MainSpec == MainInit /\ [][MainNext]_vars

\* Is element e a candidate of rank k in the priority order?
IsCandidate(k, e) ==
    CASE k = 1 -> e.tag = "main"
      [] k = 2 -> e.tag = "article"
      [] k = 3 -> e.id = Some("content")
      [] k = 4 -> e.id = Some("main")
      [] k = 5 -> e.id = Some("main-content")
      [] k = 6 -> \E c \in 1..Len(e.class) : e.class[c] = "content"
      [] k = 7 -> \E c \in 1..Len(e.class) : e.class[c] = "main-content"
      [] k = 8 -> \E c \in 1..Len(e.class) : e.class[c] = "article-content"
      [] k = 9 -> e.role = Some("main")
      [] k = 10 -> e.tag = "body"

\* The candidates of rank k in the tree.
Candidates(k) == { i \in 1..Len(html) : IsCandidate(k, html[i]) }

\* The ranks that have a candidate.
RanksPresent == { k \in 1..10 : Candidates(k) # {} }

\* C21: extract_main_content returns the first candidate that exists in the
\* order main, article, id content, id main, id main-content, class
\* content, class main-content, class article-content, role main, body,
\* wherever the candidates stand in the document; with no candidate the
\* input is returned unchanged.
C21_FirstCandidateByPriority ==
    pc = "main" =>
        IF RanksPresent = {} THEN result.value = None
        ELSE result.value = Some(MinOf(Candidates(MinOf(RanksPresent))))

\* C21 witness: a main element that stands after an article, and not
\* inside it, was returned.
C21_Witness ==
    /\ pc = "main"
    /\ \E i, j \in 1..Len(html) :
           /\ i < j
           /\ html[i].tag = "article"
           /\ html[j].tag = "main"
           /\ ~IsInside(html, j, i)
           /\ result.value = Some(j)

\* ------------------------------------------------------------------------
\* igloo.py and main.py: fetch_tool
\* ------------------------------------------------------------------------
\* A request carries the tool's arguments and the configuration of its
\* context.  What the community serves for a URL is either the page (given
\* by the Markdown html_to_markdown renders from it) or the exception the
\* fetch raises.  A call returns its output together with the calls it made
\* to the client and to the converter, in order.

MaxUrls == 3

Served(markdown) == [ ok |-> TRUE, html |-> markdown, error |-> None ]

Raised(type, detail) ==
    [ ok |-> FALSE, html |-> << >>,
      error |-> Some([ type |-> type, detail |-> detail ]) ]

\* IglooClient.fetch_page: the page, or the exception raised.
fetch_page(served, url) == served[url]

\* IglooClient.fetch_pages: one result per URL, in the order of the URLs,
\* the exception standing in the place of a page that could not be fetched.
fetch_pages(served, urls) == [ i \in 1..Len(urls) |-> served[urls[i]] ]

Call(op, args) == [ op |-> op, args |-> args ]

MUTUAL_EXCLUSION ==
    "Cannot use both 'section' and 'start_index' parameters."

\* The text of the error a failed fetch is reported with, single URL.
fetch_error_message(error, url) ==
    CASE error.type = "ValueError" -> error.detail
      [] error.type = "HTTPStatusError" ->
             << "HTTP", error.detail, "Failed to fetch page" >>
      [] error.type = "TimeoutException" ->
             << "Request timed out while fetching", url >>
      [] OTHER -> << "Unexpected error", error.detail >>

ErrorOutput(message) ==
    [ kind |-> "error", message |-> message, url |-> None, offset |-> None,
      markdown |-> << >>, metadata |-> None, entries |-> << >> ]

\* An exception the tool does not catch leaves it.
RaisedOutput(error) ==
    [ kind |-> "raised", message |-> error, url |-> None, offset |-> None,
      markdown |-> << >>, metadata |-> None, entries |-> << >> ]

\* formatter.py format_fetch_result followed by format_truncation_metadata:
\* the URL, the offset line (only for a start_index above 0), the content
\* and the metadata block.
format_fetch_result(url, markdown, start, metadata) ==
    [ kind |-> "page", message |-> << >>, url |-> Some(url),
      offset |-> IF ~IsNone(start) /\ Get(start) > 0 THEN start ELSE None,
      markdown |-> markdown, metadata |-> metadata, entries |-> << >> ]

\* main.py lines 261-330: the section path.
fetch_tool_section_path(url, html_content, effective_max_length, section_name, made) ==
    LET converted == convert_html_to_markdown(html_content, None,
                         DEFAULT_TRUNCATION_WINDOW_RATIO, None)
        log == made \o << Call("convert_html_to_markdown",
                               << html_content, None, None >>),
                          Call("extract_section",
                               << converted.content, section_name >>) >>
        conversion_result == section_in(converted, effective_max_length,
                                        section_name)
    IN  IF conversion_result.kind = "SectionNotFoundError"
        THEN [ output |-> ErrorOutput(<< "SectionNotFoundError",
                                         Get(conversion_result.error) >>),
               calls |-> log ]
        ELSE [ output |-> format_fetch_result(url,
                              conversion_result.content, None,
                              conversion_result.metadata),
               calls |-> log ]

\* main.py lines 333-353: the standard path.
fetch_tool_standard_path(url, html_content, effective_max_length, start, made) ==
    LET conversion_result == convert_html_to_markdown(html_content,
                                 Some(effective_max_length),
                                 DEFAULT_TRUNCATION_WINDOW_RATIO, start)
        log == made \o << Call("convert_html_to_markdown",
                               << html_content, Some(effective_max_length),
                                  start >>) >>
    IN  IF conversion_result.kind = "OffsetError"
        THEN [ output |-> ErrorOutput(<< "OffsetError",
                                         Get(conversion_result.error) >>),
               calls |-> log ]
        ELSE [ output |-> format_fetch_result(url,
                              conversion_result.content, start,
                              conversion_result.metadata),
               calls |-> log ]

\* main.py lines 251-353: the page is fetched, then converted.
fetch_tool_fetched(url, fetched, effective_max_length, start, section_name, made) ==
    IF ~fetched.ok
    THEN IF Get(fetched.error).type
              \in { "ValueError", "HTTPStatusError", "TimeoutException" }
         THEN [ output |-> ErrorOutput(fetch_error_message(
                                           Get(fetched.error), url)),
                calls |-> made ]
         ELSE [ output |-> RaisedOutput(Get(fetched.error)), calls |-> made ]
    ELSE IF ~IsNone(section_name)
    THEN fetch_tool_section_path(url, fetched.html, effective_max_length,
                                 Get(section_name), made)
    ELSE fetch_tool_standard_path(url, fetched.html, effective_max_length,
                                  start, made)

\* The single-URL case with the check of lines 248-249 left out.
fetch_tool_single_unchecked(served, url, effective_max_length, start, section_name) ==
    fetch_tool_fetched(url, fetch_page(served, url), effective_max_length,
                       start, section_name, << Call("fetch_page", << url >>) >>)

\* main.py lines 246-353: the single-URL case.
fetch_tool_single(served, url, effective_max_length, start, section_name) ==
    IF ~IsNone(section_name) /\ ~IsNone(start)
    THEN [ output |-> ErrorOutput(<< MUTUAL_EXCLUSION >>), calls |-> << >> ]
    ELSE fetch_tool_fetched(url, fetch_page(served, url),
             effective_max_length, start, section_name,
             << Call("fetch_page", << url >>) >>)

\* main.py lines 373-380: the message of a failed fetch, multi-URL.
fetch_pages_error_message(error, page_url) ==
    CASE error.type = "ValueError" -> error.detail
      [] error.type = "HTTPStatusError" ->
             << "HTTP", error.detail, "Failed to fetch page" >>
      [] error.type = "TimeoutException" ->
             << "Request timed out while fetching", page_url >>
      [] OTHER -> << "Unexpected error", error.detail >>

\* main.py lines 381-384: the entry of a URL whose fetch failed.
error_entry(page_url, error) ==
    [ url |-> page_url,
      error |-> Some(fetch_pages_error_message(error, page_url)),
      markdown |-> None ]

\* main.py lines 386-399: the entry of a fetched page; its markdown is the
\* content followed by the metadata block, when there is one.
markdown_entry(page_url, conversion_result) ==
    [ url |-> page_url, error |-> None,
      markdown |-> Some([ content |-> conversion_result.content,
                          metadata |-> conversion_result.metadata ]) ]

\* main.py lines 370-399: one turn of the loop over zip(urls, fetch_results).
formatted_entry(page_url, fetched, effective_max_length) ==
    IF ~fetched.ok THEN error_entry(page_url, Get(fetched.error))
    ELSE markdown_entry(page_url,
             convert_html_to_markdown(fetched.html,
                 Some(effective_max_length),
                 DEFAULT_TRUNCATION_WINDOW_RATIO, None))

\* The loop stopping at the first URL whose fetch failed.
RECURSIVE formatted_results_until_error(_, _, _, _)
formatted_results_until_error(urls, fetch_results, effective_max_length, i) ==
    IF i > Min(Len(urls), Len(fetch_results)) THEN << >>
    ELSE IF ~fetch_results[i].ok
    THEN << formatted_entry(urls[i], fetch_results[i],
                            effective_max_length) >>
    ELSE << formatted_entry(urls[i], fetch_results[i],
                            effective_max_length) >>
         \o formatted_results_until_error(urls, fetch_results,
                                          effective_max_length, i + 1)

\* main.py lines 369-399: formatted_results, from the i-th pair on.
RECURSIVE formatted_results(_, _, _, _)
formatted_results(urls, fetch_results, effective_max_length, i) ==
    IF i > Min(Len(urls), Len(fetch_results)) THEN << >>
    ELSE << formatted_entry(urls[i], fetch_results[i],
                            effective_max_length) >>
         \o formatted_results(urls, fetch_results, effective_max_length,
                              i + 1)

\* The conversions the loop makes, in order.
RECURSIVE conversions(_, _, _)
conversions(fetch_results, effective_max_length, i) ==
    IF i > Len(fetch_results) THEN << >>
    ELSE (IF fetch_results[i].ok
          THEN << Call("convert_html_to_markdown",
                       << fetch_results[i].html,
                          Some(effective_max_length), None >>) >>
          ELSE << >>)
         \o conversions(fetch_results, effective_max_length, i + 1)

\* formatter.py lines 217-229: the part of the i-th result; a result is
\* shown as an error when its error is a non-empty text.
formatted_part(i, total_count, entry) ==
    [ position |-> i, total |-> total_count, url |-> entry.url,
      error |-> IF ~IsNone(entry.error) /\ Get(entry.error) # << >>
                THEN entry.error ELSE None,
      markdown |-> IF ~IsNone(entry.error) /\ Get(entry.error) # << >>
                   THEN None
                   ELSE IF IsNone(entry.markdown)
                   THEN Some([ content |-> << >>, metadata |-> None ])
                   ELSE entry.markdown ]

\* formatter.py lines 198-231: format_fetch_results.
format_fetch_results(results, total_count) ==
    IF results = << >>
    THEN [ kind |-> "no_pages", message |-> << "No pages to display." >>,
           url |-> None, offset |-> None, markdown |-> << >>,
           metadata |-> None, entries |-> << >> ]
    ELSE [ kind |-> "pages", message |-> << >>, url |-> None,
           offset |-> None, markdown |-> << >>, metadata |-> None,
           entries |-> [ i \in 1..Len(results) |->
                           formatted_part(i, total_count, results[i]) ] ]

\* main.py lines 366-404: the pages are fetched, converted and formatted.
fetch_tool_pages(urls, fetch_results, effective_max_length) ==
    [ output |-> format_fetch_results(
                     formatted_results(urls, fetch_results,
                                       effective_max_length, 1),
                     Len(urls)),
      calls |-> << Call("fetch_pages", << urls >>) >>
                \o conversions(fetch_results, effective_max_length, 1) ]

\* main.py lines 356-404: the multi-URL case.
fetch_tool_multi(served, fetch_max_pages, urls, effective_max_length) ==
    IF Len(urls) > fetch_max_pages
    THEN [ output |-> ErrorOutput(<< "Too many URLs requested", Len(urls),
                                     "Maximum allowed is", fetch_max_pages >>),
           calls |-> << >> ]
    ELSE IF Len(urls) = 0
    THEN [ output |-> ErrorOutput(<< "No URLs provided." >>),
           calls |-> << >> ]
    ELSE fetch_tool_pages(urls, fetch_pages(served, urls),
                          effective_max_length)

\* isinstance(url, str): url is one URL, or a list of URLs; value holds the
\* URL or the URLs.
OneUrl(u) == [ is_str |-> TRUE, value |-> << u >> ]

UrlList(us) == [ is_str |-> FALSE, value |-> us ]

\* main.py lines 190-404: fetch_tool.
fetch_tool(served, args) ==
    IF args.url.is_str
    THEN fetch_tool_single(served, args.url.value[1],
             IF IsNone(args.max_length) THEN args.config.fetch_max_length
             ELSE Get(args.max_length),
             args.start_index, args.section)
    ELSE fetch_tool_multi(served, args.config.fetch_max_pages,
             args.url.value,
             IF IsNone(args.max_length) THEN args.config.fetch_max_length
             ELSE Get(args.max_length))

\* ------------------------------------------------------------------------
\* ToolSpec: one call of fetch_tool
\* ------------------------------------------------------------------------

Urls == { "u1", "u2" }

\* The Markdown of a page with two sections.
PageA ==
    << HASH, SP, "a", NL, "b", SP, "c", NL, HASH, SP, "b", NL, "d" >>

PageB == << "x" >>

\* What fetching a URL may give.
Outcomes ==
    { Served(PageA), Served(PageB),
      Raised("ValueError", << "URL must belong to the community" >>),
      Raised("HTTPStatusError", << 404 >>),
      Raised("TimeoutException", << >>),
      Raised("RuntimeError", << "connection reset" >>) }

UrlArguments ==
    { OneUrl(u) : u \in Urls }
    \cup { UrlList(us) : us \in UNION { [1..n -> Urls] : n \in 0..MaxUrls } }

Configs == [ fetch_max_length : { FETCH_MAX_LENGTH }, fetch_max_pages : { 1, 2 } ]

ToolRequests ==
    [ url : UrlArguments,
      max_length : { None, Some(4) },
      start_index : { None, Some(0), Some(4), Some(13) },
      section : { None, Some(<< "a" >>), Some(<< "z" >>) },
      config : Configs ]

ToolInit ==
    /\ html = << >>
    /\ document = << >>
    /\ max_length = None
    /\ window_ratio = DEFAULT_TRUNCATION_WINDOW_RATIO
    /\ pc = "ready"
    /\ start_index = None
    /\ section = None
    /\ result = NoResult
    /\ collected = << >>
    /\ hops = 0
    /\ request \in ToolRequests
    /\ pages \in [Urls -> Outcomes]
    /\ calls = << >>
    /\ tasks = << >>
    /\ deny_lists = DenyLists

\* fetch_tool(ctx, url, max_length, start_index, section).
FetchTool ==
    /\ pc = "ready"
    /\ result' = fetch_tool(pages, request).output
    /\ calls' = fetch_tool(pages, request).calls
    /\ pc' = "fetched"
    /\ UNCHANGED << request, pages, tasks >>
    /\ UNCHANGED deny_lists
    /\ UNCHANGED << html, document, max_length, window_ratio, start_index,
                    section, collected, hops >>

ToolNext == FetchTool

ToolSpec == ToolInit /\ [][ToolNext]_vars

\* The request names one URL and both a section and a start_index.
BothSupplied ==
    /\ request.url.is_str
    /\ ~IsNone(request.section)
    /\ ~IsNone(request.start_index)

\* The calls of the converter among the calls made.
ConvertCalls ==
    { k \in 1..Len(calls) : calls[k].op = "convert_html_to_markdown" }

\* C22: a single-URL call with both section and start_index returns the
\* mutual-exclusion error and fetches and converts nothing; a single-URL
\* call with a section never passes a start_index to the converter and
\* reports no offset.
C22_MutualExclusion ==
    pc = "fetched" =>
        /\ BothSupplied =>
               /\ result = ErrorOutput(<< MUTUAL_EXCLUSION >>)
               /\ calls = << >>
        /\ (request.url.is_str /\ ~IsNone(request.section)) =>
               /\ \A k \in ConvertCalls : calls[k].args[3] = None
               /\ result.offset = None

\* C22 witness: both were supplied for a URL whose page can be fetched and
\* has the section.
C22_Witness ==
    /\ pc = "fetched"
    /\ BothSupplied
    /\ pages[request.url.value[1]] = Served(PageA)
    /\ request.section = Some(<< "a" >>)
    /\ request.start_index = Some(4)

\* The max_length in force for the call of the tool.
ToolBudget ==
    IF IsNone(request.max_length) THEN request.config.fetch_max_length
    ELSE Get(request.max_length)

\* The i-th entry of the output is the error entry of the i-th URL.
IsErrorEntry(entry, i) ==
    /\ entry.url = request.url.value[i]
    /\ entry.position = i
    /\ entry.total = Len(request.url.value)
    /\ ~IsNone(entry.error)
    /\ IsNone(entry.markdown)

\* The i-th entry of the output is conversion, the page of the i-th URL
\* converted alone.
IsPageEntry(entry, i, conversion) ==
    /\ entry.url = request.url.value[i]
    /\ entry.position = i
    /\ entry.total = Len(request.url.value)
    /\ IsNone(entry.error)
    /\ entry.markdown = Some([ content |-> conversion.content,
                               metadata |-> conversion.metadata ])

\* C30: with a list of URLs, an empty list or one longer than
\* fetch_max_pages is rejected with nothing fetched or converted; otherwise
\* the output has one entry per URL in the order of the list, an error
\* entry for a URL whose fetch failed and, for every other URL, its page
\* converted from offset 0 with max_length applied, whatever the other URLs
\* gave and whatever start_index and section were passed.
C30_OneEntryPerUrl ==
    (pc = "fetched" /\ ~request.url.is_str) =>
        IF \/ Len(request.url.value) > request.config.fetch_max_pages
           \/ Len(request.url.value) = 0
        THEN /\ result.kind = "error"
             /\ calls = << >>
        ELSE /\ result.kind = "pages"
             /\ Len(result.entries) = Len(request.url.value)
             /\ calls[1] = Call("fetch_pages", << request.url.value >>)
             /\ \A k \in ConvertCalls :
                    /\ calls[k].args[2] = Some(ToolBudget)
                    /\ calls[k].args[3] = None
             /\ \A i \in 1..Len(request.url.value) :
                    IF pages[request.url.value[i]].ok
                    THEN IsPageEntry(result.entries[i], i,
                             convert_html_to_markdown(
                                 pages[request.url.value[i]].html,
                                 Some(ToolBudget),
                                 DEFAULT_TRUNCATION_WINDOW_RATIO, None))
                    ELSE IsErrorEntry(result.entries[i], i)

\* C30 witness: two URLs, the first of which could not be fetched and the
\* second of which was cut to max_length, in a call that also passed a
\* start_index and a section.
C30_Witness ==
    /\ pc = "fetched"
    /\ ~request.url.is_str
    /\ Len(request.url.value) = 2
    /\ ~IsNone(request.start_index)
    /\ ~IsNone(request.section)
    /\ result.kind = "pages"
    /\ ~IsNone(result.entries[1].error)
    /\ ~IsNone(result.entries[2].markdown)
    /\ ~IsNone(Get(result.entries[2].markdown).metadata)
    /\ Get(Get(result.entries[2].markdown).metadata).next_start_index
           # None

\* ------------------------------------------------------------------------
\* igloo.py: IglooClient.search
\* ------------------------------------------------------------------------
\* The community holds the found items in upstream order and answers a
\* request for an offset with the items from that offset on, one page of
\* them, and with numFound when it reports it.

MaxItems == 4

\* first_response.json(), or response.json() of a follow-up request.
search_response(community, offset, page_size) ==
    [ results |-> Slice(community.items, offset, offset + page_size),
      numFound |-> community.numFound ]

\* Line 207: numFound, defaulting to the size of the first page.
total_results_found(first_response_json) ==
    IF IsNone(first_response_json.numFound)
    THEN Len(first_response_json.results)
    ELSE Get(first_response_json.numFound)

\* Lines 209-213: search returns after the first request.
returns_first_page(first_results, limit) ==
    /\ ~IsNone(limit)
    /\ Get(limit) = 0 \/ Len(first_results) >= Get(limit)

\* The number of results to fetch with the limit left out.
results_to_fetch_ignoring_limit(limit, total) == total

\* Lines 215-218.
results_to_fetch(limit, total) ==
    IF IsNone(limit) THEN total ELSE Min(Get(limit), total)

\* The offsets with a fixed start whatever the first page held.
page_offsets_from_page_size(start, stop, step) ==
    [ k \in 1..(IF stop > step THEN (stop - 1) \div step ELSE 0) |->
        k * step ]

\* Line 221: range(start, stop, step) for a positive step.
page_offsets(start, stop, step) ==
    [ k \in 1..(IF stop > start THEN (stop - start + step - 1) \div step
                ELSE 0) |-> start + (k - 1) * step ]

\* The responses appended as they completed.
RECURSIVE extend_in_completion_order(_, _, _, _)
extend_in_completion_order(results, responses, offsets, completed) ==
    IF completed = << >> THEN results
    ELSE extend_in_completion_order(
             results \o responses[Head(completed)].results,
             responses, offsets, Tail(completed))

\* Lines 235-237: the responses appended in the order of the tasks.
RECURSIVE extend_all(_, _, _, _)
extend_all(results, responses, offsets, completed) ==
    IF offsets = << >> THEN results
    ELSE extend_all(results \o responses[Head(offsets)].results,
                    responses, Tail(offsets), completed)

\* The results returned whole.
limit_results_unlimited(results, limit) == results

\* Lines 209-213 and 239-242: results[:limit], or all of them.
limit_results(results, limit) ==
    IF IsNone(limit) THEN results ELSE Slice(results, 0, Get(limit))

\* Lines 199-242 when no request fails: the list search returns.
search(community, page_size, limit) ==
    LET first == search_response(community, 0, page_size)
        offsets == page_offsets(Len(first.results),
                       results_to_fetch(limit, total_results_found(first)),
                       page_size)
    IN  IF returns_first_page(first.results, limit)
        THEN limit_results(first.results, limit)
        ELSE limit_results(
                 extend_all(first.results,
                     [ o \in { offsets[k] : k \in 1..Len(offsets) } |->
                         search_response(community, o, page_size) ],
                     offsets, << >>),
                 limit)

\* ------------------------------------------------------------------------
\* ClientSpec: one call of IglooClient.search, request by request
\* ------------------------------------------------------------------------

\* The communities: up to MaxItems items, numbered in upstream order, with
\* numFound absent, exact, or one above what the pages hold.
Communities ==
    { [ items |-> [ i \in 1..n |-> i ], numFound |-> f ] :
        n \in 0..MaxItems, f \in { None } \cup { Some(m) : m \in 0..(MaxItems + 1) } }

PageSizes == { 1, 2, 3 }

Limits == { None } \cup { Some(n) : n \in 0..(MaxItems + 1) }

ClientInit ==
    /\ html = << >>
    /\ document = << >>
    /\ max_length = None
    /\ window_ratio = DEFAULT_TRUNCATION_WINDOW_RATIO
    /\ pc = "ready"
    /\ start_index = None
    /\ section = None
    /\ result = NoResult
    /\ collected = << >>
    /\ hops = 0
    /\ request \in [ page_size : PageSizes, limit : Limits ]
    /\ pages \in { c \in Communities :
                     IsNone(c.numFound) \/ Get(c.numFound) >= Len(c.items) }
    /\ calls = << >>
    /\ tasks = << >>
    /\ deny_lists = DenyLists

SearchReturned(results) ==
    [ kind |-> "search", content |-> results, metadata |-> None,
      error |-> None ]

\* The error of the request that failed: the first one (None) or the one
\* for an offset.
SearchRaised(offset) ==
    [ kind |-> "HTTPStatusError", content |-> << >>, metadata |-> None,
      error |-> Some(offset) ]

\* Lines 220-233: the tasks of the follow-up requests, handed to gather.
gather(first_results, offsets) ==
    [ first |-> first_results, offsets |-> offsets,
      responses |-> << >>, completed |-> << >> ]

\* Lines 199-233 with the first response in hand: search returns, or
\* creates the tasks and awaits them.
SearchContinues(first, offsets) ==
    IF returns_first_page(first.results, request.limit) \/ offsets = << >>
    THEN /\ result' = SearchReturned(limit_results(first.results,
                                                   request.limit))
         /\ calls' = << None >>
         /\ pc' = "returned"
         /\ UNCHANGED tasks
    ELSE /\ tasks' = gather(first.results, offsets)
         /\ calls' = << None >> \o [ k \in 1..Len(offsets) |->
                                       Some(offsets[k]) ]
         /\ pc' = "gathering"
         /\ UNCHANGED result

\* Lines 199-233: the first request is answered.
SearchFirst ==
    /\ pc = "ready"
    /\ SearchContinues(
           search_response(pages, 0, request.page_size),
           page_offsets(
               Len(search_response(pages, 0, request.page_size).results),
               results_to_fetch(request.limit,
                   total_results_found(
                       search_response(pages, 0, request.page_size))),
               request.page_size))
    /\ UNCHANGED << request, pages >>
    /\ UNCHANGED deny_lists
    /\ UNCHANGED << html, document, max_length, window_ratio, start_index,
                    section, collected, hops >>

\* Line 96: the first request fails and search raises.
SearchFirstFails ==
    /\ pc = "ready"
    /\ result' = SearchRaised(None)
    /\ calls' = << None >>
    /\ pc' = "raised"
    /\ UNCHANGED << request, pages, tasks >>
    /\ UNCHANGED deny_lists
    /\ UNCHANGED << html, document, max_length, window_ratio, start_index,
                    section, collected, hops >>

\* The offsets whose request is still in flight.
Pending ==
    { tasks.offsets[k] : k \in 1..Len(tasks.offsets) }
    \ { tasks.completed[k] : k \in 1..Len(tasks.completed) }

\* The request for offset o is answered, in whatever order.
PageCompletes(o) ==
    /\ pc = "gathering"
    /\ o \in Pending
    /\ tasks' = [ tasks EXCEPT
                    !.responses = [ p \in DOMAIN tasks.responses \cup { o } |->
                        IF p = o
                        THEN search_response(pages, o, request.page_size)
                        ELSE tasks.responses[p] ],
                    !.completed = Append(tasks.completed, o) ]
    /\ UNCHANGED << request, pages, calls, pc, result >>
    /\ UNCHANGED deny_lists
    /\ UNCHANGED << html, document, max_length, window_ratio, start_index,
                    section, collected, hops >>

\* The request for offset o fails: gather raises its error to search.
PageFails(o) ==
    /\ pc = "gathering"
    /\ o \in Pending
    /\ result' = SearchRaised(Some(o))
    /\ pc' = "raised"
    /\ UNCHANGED << request, pages, calls, tasks >>
    /\ UNCHANGED deny_lists
    /\ UNCHANGED << html, document, max_length, window_ratio, start_index,
                    section, collected, hops >>

\* Lines 233-242: every request is answered, gather returns the responses
\* and search returns.
SearchGathered ==
    /\ pc = "gathering"
    /\ Pending = {}
    /\ result' = SearchReturned(
                     limit_results(
                         extend_all(tasks.first, tasks.responses,
                                    tasks.offsets, tasks.completed),
                         request.limit))
    /\ pc' = "returned"
    /\ UNCHANGED << request, pages, calls, tasks >>
    /\ UNCHANGED deny_lists
    /\ UNCHANGED << html, document, max_length, window_ratio, start_index,
                    section, collected, hops >>

ClientNext ==
    \/ SearchFirst
    \/ SearchFirstFails
    \/ \E o \in 0..(2 * MaxItems) : PageCompletes(o)
    \/ \E o \in 0..(2 * MaxItems) : PageFails(o)
    \/ SearchGathered

ClientSpec == ClientInit /\ [][ClientNext]_vars

\* The first page the community serves for the call.
FirstPage == Slice(pages.items, 0, request.page_size)

\* numFound, or the size of the first page when it is absent.
NumFound ==
    IF IsNone(pages.numFound) THEN Len(FirstPage) ELSE Get(pages.numFound)

\* The number of results the follow-up requests have to reach.
ToFetch ==
    IF IsNone(request.limit) THEN NumFound
    ELSE Min(Get(request.limit), NumFound)

\* The offsets of the follow-up requests made so far.
FollowUps == { Get(calls[k]) : k \in 2..Len(calls) }

\* C25: search never returns more than limit results; it makes exactly one
\* request when limit is 0 (and returns nothing) or when the first page
\* holds at least limit results; every follow-up request is for an offset
\* below min(limit, numFound), or below numFound without a limit.
C25_LimitBoundsResultsAndRequests ==
    /\ (pc = "returned" /\ ~IsNone(request.limit)) =>
           Len(result.content) <= Get(request.limit)
    /\ (pc = "returned" /\ request.limit = Some(0)) =>
           result.content = << >>
    /\ (pc # "ready" /\ ~IsNone(request.limit)
        /\ (Get(request.limit) = 0 \/ Len(FirstPage) >= Get(request.limit)))
       => Len(calls) = 1
    /\ pc # "ready" => calls[1] = None
    /\ \A o \in FollowUps : o < ToFetch

\* C25 witness: with a limit above the first page and below numFound,
\* follow-up requests were made and the result was cut to the limit.
C25_Witness ==
    /\ pc = "returned"
    /\ ~IsNone(request.limit)
    /\ Len(FirstPage) < Get(request.limit)
    /\ Get(request.limit) < NumFound
    /\ Len(calls) > 2
    /\ Len(result.content) = Get(request.limit)
    /\ Len(pages.items) > Get(request.limit)

\* The offsets len(first page), len(first page) + page_size, ... below the
\* number of results to fetch.
ExpectedOffsets ==
    { o \in 0..(2 * MaxItems) :
        /\ o < ToFetch
        /\ o >= Len(FirstPage)
        /\ (o - Len(FirstPage)) % request.page_size = 0 }

\* The pages at the expected offsets, one after the other in ascending
\* order of offset, from offset o on.
RECURSIVE PagesFrom(_)
PagesFrom(o) ==
    IF o >= ToFetch THEN << >>
    ELSE Slice(pages.items, o, o + request.page_size)
         \o PagesFrom(o + request.page_size)

\* C29: while search awaits the follow-up requests, one request has been
\* issued for each expected offset, whatever has completed so far; when it
\* returns after awaiting them, the result is the first page followed by
\* the pages in ascending offset order (cut to the limit), whatever order
\* they completed in; when a request failed, search raised its error and
\* returned no list.
C29_ConcurrentPagesInOffsetOrder ==
    /\ pc = "gathering" =>
           /\ FollowUps = ExpectedOffsets
           /\ Len(calls) = 1 + Cardinality(ExpectedOffsets)
           /\ \A k \in 2..(Len(calls) - 1) : Get(calls[k]) < Get(calls[k + 1])
    /\ (pc = "returned" /\ tasks # << >>) =>
           result.content
               = limit_results(FirstPage \o PagesFrom(Len(FirstPage)),
                               request.limit)
    /\ pc = "raised" =>
           /\ result.kind = "HTTPStatusError"
           /\ result.content = << >>
           /\ Get(result.error) # None =>
                  Get(Get(result.error)) \in ExpectedOffsets

\* C29 witness: three pages completed in an order other than that of their
\* offsets, and search returned.
C29_Witness ==
    /\ pc = "returned"
    /\ tasks # << >>
    /\ Len(tasks.completed) >= 3
    /\ tasks.completed[1] > tasks.completed[2]
    /\ Len(result.content) >= 4

\* ------------------------------------------------------------------------
\* sorting.py and main.py: sort_results and search_tool
\* ------------------------------------------------------------------------

\* _sort_by_views_key_func: item.get("views_count", 0).
sort_by_views_key_func(item) ==
    IF IsNone(item.views_count) THEN 0 ELSE Get(item.views_count)

\* One step of sorted(..., reverse=True): item goes after the items whose
\* key is at least its own, so that equal keys keep their order.
RECURSIVE insert_by_views(_, _)
insert_by_views(sorted_items, item) ==
    IF sorted_items = << >> THEN << item >>
    ELSE IF sort_by_views_key_func(Head(sorted_items))
                >= sort_by_views_key_func(item)
    THEN << Head(sorted_items) >> \o insert_by_views(Tail(sorted_items), item)
    ELSE << item >> \o sorted_items

\* sorted(results, key=_sort_by_views_key_func, reverse=True).
RECURSIVE sorted_by_views(_, _)
sorted_by_views(results, sorted_items) ==
    IF results = << >> THEN sorted_items
    ELSE sorted_by_views(Tail(results),
                         insert_by_views(sorted_items, Head(results)))

\* The sort done in place, as results.sort() does it.
sort_results_in_place(results, sort_by) ==
    IF sort_by = "default"
    THEN [ returned |-> results, results |-> results ]
    ELSE [ returned |-> sorted_by_views(results, << >>),
           results |-> sorted_by_views(results, << >>) ]

\* sorting.py lines 7-32: the list returned, and the list passed in as the
\* call leaves it.
sort_results(results, sort_by) ==
    IF sort_by = "default"
    THEN [ returned |-> results, results |-> results ]
    ELSE [ returned |-> sorted_by_views(results, << >>),
           results |-> results ]

\* The limit passed to the client whatever the sort.
limit_for_search_always(sort_by, effective_limit) == Some(effective_limit)

\* main.py line 126.
limit_for_search(sort_by, effective_limit) ==
    IF sort_by = "default" THEN Some(effective_limit) ELSE None

\* main.py lines 142-164: the fields renamed.
output_results(raw_results) ==
    [ k \in 1..Len(raw_results) |->
        [ id |-> raw_results[k].id,
          views_count |-> raw_results[k].numberOfViews ] ]

\* main.py lines 166-187: sorted, cut to effective_limit and formatted.
search_tool_sorted(raw_results, sorted_output, sort_by, effective_limit, searched_with) ==
    [ kind |-> "search_results",
      results |-> Slice(sorted_output.returned, 0, effective_limit),
      total_found |-> Len(raw_results),
      limit |-> effective_limit,
      output_results |-> sorted_output.results,
      searched_with |-> searched_with ]

\* main.py lines 126-187, with the limit of the search in hand.
search_tool_with(community, page_size, sort_by, effective_limit, searched_with) ==
    search_tool_sorted(
        search(community, page_size, searched_with),
        sort_results(output_results(search(community, page_size,
                                           searched_with)), sort_by),
        sort_by, effective_limit, searched_with)

\* main.py lines 70-187: search_tool.
search_tool(community, args) ==
    search_tool_with(community,
        IF IsNone(args.pagination_page_size) THEN args.config.page_size
        ELSE Get(args.pagination_page_size),
        args.sort,
        IF IsNone(args.limit) THEN args.config.default_limit
        ELSE Get(args.limit),
        limit_for_search(args.sort,
            IF IsNone(args.limit) THEN args.config.default_limit
            ELSE Get(args.limit)))

\* ------------------------------------------------------------------------
\* SearchSpec: one call of search_tool
\* ------------------------------------------------------------------------

ViewCounts == { None, Some(0), Some(1), Some(2) }

\* The found items, numbered in upstream order, each with or without a
\* view count.
FoundItems(n) ==
    { [ i \in 1..n |-> [ id |-> i, numberOfViews |-> v[i] ] ] :
        v \in [1..n -> ViewCounts] }

SearchRequests ==
    [ pagination_page_size : { None, Some(3) },
      sort : { "default", "views" },
      limit : { None, Some(0), Some(1), Some(3) },
      config : [ page_size : { 2 }, default_limit : { 2 } ] ]

SearchInit ==
    /\ html = << >>
    /\ document = << >>
    /\ max_length = None
    /\ window_ratio = DEFAULT_TRUNCATION_WINDOW_RATIO
    /\ pc = "ready"
    /\ start_index = None
    /\ section = None
    /\ result = NoResult
    /\ collected = << >>
    /\ hops = 0
    /\ request \in SearchRequests
    /\ \E n \in 0..MaxItems :
           \E found \in FoundItems(n) :
               pages \in { [ items |-> found, numFound |-> f ] :
                             f \in { None, Some(n) } }
    /\ calls = << >>
    /\ tasks = << >>
    /\ deny_lists = DenyLists

\* search_tool(ctx, ..., pagination_page_size, sort, limit).
SearchTool ==
    /\ pc = "ready"
    /\ result' = search_tool(pages, request)
    /\ calls' = << Call("search", << result'.searched_with >>) >>
    /\ pc' = "searched"
    /\ UNCHANGED << request, pages, tasks >>
    /\ UNCHANGED deny_lists
    /\ UNCHANGED << html, document, max_length, window_ratio, start_index,
                    section, collected, hops >>

SearchNext == SearchTool

SearchSpec == SearchInit /\ [][SearchNext]_vars

\* The limit in force: limit, or the configured default.
EffectiveLimit ==
    IF IsNone(request.limit) THEN request.config.default_limit
    ELSE Get(request.limit)

\* The page size in force.
EffectivePageSize ==
    IF IsNone(request.pagination_page_size) THEN request.config.page_size
    ELSE Get(request.pagination_page_size)

\* The items the client returns when it is given no limit, in upstream
\* order; an item's id is its place in that order.
AllFound == search(pages, EffectivePageSize, None)

\* The view count an item is sorted by.
ViewsOf(views_count) == IF IsNone(views_count) THEN 0 ELSE Get(views_count)

\* Item a comes before item b: more views, or as many and earlier upstream.
Before(a, b) ==
    \/ ViewsOf(a.views_count) > ViewsOf(b.views_count)
    \/ /\ ViewsOf(a.views_count) = ViewsOf(b.views_count)
       /\ a.id < b.id

\* rs is the top of the items by views: it holds items of found, each
\* before the next, and every item of found that it leaves out comes after
\* its last one.
IsTopByViews(rs, found, n) ==
    /\ Len(rs) = Min(n, Len(found))
    /\ \A k \in 1..Len(rs) :
           \E i \in 1..Len(found) :
               /\ found[i].id = rs[k].id
               /\ found[i].numberOfViews = rs[k].views_count
    /\ \A k \in 1..(Len(rs) - 1) : Before(rs[k], rs[k + 1])
    /\ \A i \in 1..Len(found) :
           (\A k \in 1..Len(rs) : rs[k].id # found[i].id) =>
               \A k \in 1..Len(rs) :
                   Before(rs[k], [ id |-> found[i].id,
                                   views_count |-> found[i].numberOfViews ])

\* rs is the first n items in upstream order.
IsUpstreamPrefix(rs, found, n) ==
    /\ Len(rs) = Min(n, Len(found))
    /\ \A k \in 1..Len(rs) :
           /\ rs[k].id = found[k].id
           /\ rs[k].views_count = found[k].numberOfViews

\* C24: search_tool returns at most effective_limit results; with
\* sort="views" the client is asked without a limit and the output is the
\* top effective_limit of all the items it returns, by views descending,
\* a missing count as 0 and equal counts in upstream order, the list handed
\* to sort_results being left as it was; with sort="default" the client is
\* asked with effective_limit and upstream order is kept.
C24_TopByViewsAfterFullFetch ==
    pc = "searched" =>
        /\ Len(result.results) <= EffectiveLimit
        /\ request.sort = "views" =>
               /\ calls = << Call("search", << None >>) >>
               /\ IsTopByViews(result.results, AllFound, EffectiveLimit)
               /\ result.total_found = Len(AllFound)
               /\ IsUpstreamPrefix(result.output_results, AllFound,
                                   Len(AllFound))
        /\ request.sort = "default" =>
               /\ calls = << Call("search", << Some(EffectiveLimit) >>) >>
               /\ IsUpstreamPrefix(result.results, AllFound, EffectiveLimit)

\* C24 witness: sorted by views, the item with the most views stood after
\* the first effective_limit items upstream, an item without a count and
\* two items with equal counts were among the found, and the output was cut.
C24_Witness ==
    /\ pc = "searched"
    /\ request.sort = "views"
    /\ Len(AllFound) > EffectiveLimit
    /\ Len(result.results) = EffectiveLimit
    /\ EffectiveLimit >= 1
    /\ result.results[1].id > EffectiveLimit
    /\ \E i \in 1..Len(AllFound) : IsNone(AllFound[i].numberOfViews)
    /\ \E i, j \in 1..Len(AllFound) :
           /\ i < j
           /\ AllFound[i].numberOfViews = AllFound[j].numberOfViews

\* ------------------------------------------------------------------------
\* NavSpec: convert called on documents with many headings
\* ------------------------------------------------------------------------

MaxNavBlocks == 3

\* The pieces of the documents: two headings, a line and a word of body.
NavBlocks ==
    { << HASH, SP, "a", NL >>, << HASH, SP, "b", NL >>, << "c", NL >>,
      << "c", SP >> }

\* A document with more headings than remaining_sections lists.
LongDocument ==
    Flatten(<< << HASH, SP, "a", NL >>, << HASH, SP, "b", NL >>,
               << HASH, SP, "c", NL >>, << HASH, SP, "d", NL >>,
               << HASH, SP, "e", NL >>, << HASH, SP, "f", NL >>,
               << HASH, SP, "g", NL >>, << HASH, SP, "h", NL >> >>)

NavTexts ==
    { Flatten(bs) :
          bs \in UNION { [1..n -> NavBlocks] : n \in 0..MaxNavBlocks } }
    \cup { LongDocument }

NavBudgets == { Some(1), Some(3), Some(6) }

NavInit ==
    /\ html = << >>
    /\ document \in NavTexts
    /\ max_length \in NavBudgets
    /\ window_ratio = DEFAULT_TRUNCATION_WINDOW_RATIO
    /\ pc = "ready"
    /\ start_index = None
    /\ section = None
    /\ result = NoResult
    /\ collected = << >>
    /\ hops = 0
    /\ request = None
    /\ pages = << >>
    /\ calls = << >>
    /\ tasks = << >>
    /\ deny_lists = DenyLists

NavNext ==
    \/ Start
    \/ \E s \in 0..Len(document) : ConvertAt(s)

NavSpec == NavInit /\ [][NavNext]_vars

\* The headings of hs, (text, offset) pairs in document order, that start
\* before c, and those that start at c or after it.
HeadingsBefore(hs, c) == { k \in 1..Len(hs) : hs[k][2] < c }

HeadingsFrom(hs, c) == { k \in 1..Len(hs) : hs[k][2] >= c }

\* The metadata m reports the headings hs around the cut point c.
ReportsHeadings(m, hs, c) ==
    /\ m.current_path
           = IF HeadingsBefore(hs, c) = {} THEN None
             ELSE Some(hs[Cardinality(HeadingsBefore(hs, c))][1])
    /\ Len(m.remaining_sections)
           = Min(MAX_REMAINING_SECTIONS, Cardinality(HeadingsFrom(hs, c)))
    /\ \A j \in 1..Len(m.remaining_sections) :
           m.remaining_sections[j]
               = hs[Cardinality(HeadingsBefore(hs, c)) + j][1]
    /\ Len(m.remaining_sections) <= MAX_REMAINING_SECTIONS
    /\ \A k \in HeadingsBefore(hs, c) :
           \A j \in 1..Len(hs) : hs[j][2] < hs[k][2] => j < k

MaxCalls == 2

\* An element with the Markdown that html_to_markdown renders for it.
PageElement(tag, class, id, text, parent) ==
    [ tag |-> tag, class |-> class, id |-> id, style |-> None,
      role |-> None, text |-> text, parent |-> parent ]

\* <html><body><nav/><main>..<p/><div class="sidebar"/></main></body></html>
PageTreeA ==
    << PageElement("html", << >>, None, << >>, 0),
       PageElement("body", << >>, None, << >>, 1),
       PageElement("nav", << >>, None, << "n", SP >>, 2),
       PageElement("main", << >>, None,
                   << HASH, SP, "a", NL, "b", SP, "c", NL >>, 2),
       PageElement("p", << >>, None, << HASH, SP, "b", NL, "d" >>, 4),
       PageElement("div", << "sidebar" >>, None, << "s" >>, 4) >>

\* <html><body><div id="content"><p/></div><footer/></body></html>
PageTreeB ==
    << PageElement("html", << >>, None, << >>, 0),
       PageElement("body", << >>, None, << >>, 1),
       PageElement("div", << >>, Some("content"), << HASH, SP, "a", NL >>, 2),
       PageElement("p", << >>, None, << "c" >>, 3),
       PageElement("footer", << >>, None, << "f" >>, 2) >>

\* html_to_markdown (a library): the Markdown of the elements that are left
\* in the tree and lie in the container, in document order; without a
\* container, of all the elements left.
RECURSIVE html_to_markdown(_, _, _, _)
html_to_markdown(elements, soup, container, i) ==
    IF i > Len(elements) THEN << >>
    ELSE (IF /\ i \in soup
             /\ IsNone(container) \/ IsInside(elements, i, Get(container))
          THEN elements[i].text ELSE << >>)
         \o html_to_markdown(elements, soup, container, i + 1)

\* The locals of a call that has not started.
Frame(kind, elements, budget, start, name) ==
    [ kind |-> kind, html |-> elements, max_length |-> budget,
      start_index |-> start, section_name |-> name,
      stage |-> "START", trace |-> << >>, soup |-> {}, container |-> None,
      markdown |-> << >>, total_length |-> 0, effective_start |-> 0,
      section |-> None, result |-> NoResult ]

\* The arguments convert is called with: the section retrieval passes no
\* max_length and no start_index (main.py lines 263-266).
convert_max_length(frame) ==
    IF frame.kind = "section" THEN None ELSE frame.max_length

convert_start_index(frame) ==
    IF frame.kind = "section" THEN None ELSE frame.start_index

\* The frame after the stage that was run, with the locals it assigned.
Staged(frame, stage, assigned) ==
    [ f \in DOMAIN frame |->
        IF f = "stage" THEN stage
        ELSE IF f = "trace" THEN Append(frame.trace, stage)
        ELSE IF f \in DOMAIN assigned THEN assigned[f]
        ELSE frame[f] ]

\* The frame of a call that raised at the stage.
Raises(frame, stage, error) ==
    [ f \in DOMAIN frame |->
        IF f = "stage" THEN "FAILED"
        ELSE IF f = "trace" THEN Append(frame.trace, stage)
        ELSE IF f = "result" THEN error
        ELSE frame[f] ]

\* The frame of a call that returned.
Returns(frame, stage, returned) ==
    [ f \in DOMAIN frame |->
        IF f = "stage" THEN stage
        ELSE IF f = "result" THEN returned
        ELSE frame[f] ]

\* The lists after a call that consumes UNWANTED_TAGS as it goes.
lists_after_sanitize_consumed(lists) == [ lists EXCEPT !.tags = << >> ]

\* Lines 231-244: the loops read the lists and leave them as they are.
lists_after_sanitize(lists) == lists

\* The slice taken without the bounds check, as Python slices.
offset_slice_stage_unchecked(frame, start) ==
    IF IsNone(start) THEN Staged(frame, "OFFSET_SLICE", << >>)
    ELSE Staged(frame, "OFFSET_SLICE",
                [ markdown |-> offset_markdown(frame.markdown, Get(start)),
                  effective_start |-> Get(start) ])

\* Line 440: sanitized = sanitize_html(html_string).
sanitize_stage(frame, lists) ==
    Staged(frame, "SANITIZE",
           [ soup |-> sanitize_html_from(frame.html, lists) ])

\* Line 443: main_content = extract_main_content(sanitized).
extract_main_stage(frame) ==
    Staged(frame, "EXTRACT_MAIN",
           [ container |->
               first_container(content_selectors(frame.html, frame.soup)) ])

\* Lines 446-447: markdown = html_to_markdown(main_content).
render_stage(frame) ==
    Staged(frame, "RENDER",
           [ markdown |-> html_to_markdown(frame.html, frame.soup,
                                           frame.container, 1),
             total_length |-> Len(html_to_markdown(frame.html, frame.soup,
                                                   frame.container, 1)) ])

\* Lines 450-460: the bounds check and the slice.
offset_slice_stage(frame, start) ==
    IF IsNone(start) THEN Staged(frame, "OFFSET_SLICE", << >>)
    ELSE IF offset_out_of_bounds(Get(start), frame.total_length)
    THEN Raises(frame, "OFFSET_SLICE",
                OffsetError(Get(start), frame.total_length))
    ELSE Staged(frame, "OFFSET_SLICE",
                [ markdown |-> offset_markdown(frame.markdown, Get(start)),
                  effective_start |-> Get(start) ])

\* Lines 463-507: the result is built and convert returns; the section
\* retrieval goes on from there.
final_stage(frame, budget, start) ==
    Returns(
        Staged(frame,
               IF needs_truncation(budget, Len(frame.markdown))
               THEN "TRUNCATE" ELSE "PASSTHROUGH",
               << >>),
        IF frame.kind = "section" THEN "CONVERTED" ELSE "DONE",
        convert_from(frame.markdown, frame.total_length, budget,
                     DEFAULT_TRUNCATION_WINDOW_RATIO, start,
                     frame.effective_start))

\* main.py lines 268-273: extract_section on the content convert returned.
section_slice_stage(frame, extracted) ==
    IF ~extracted.found
    THEN Raises(frame, "SECTION_SLICE", extracted.raised)
    ELSE Staged(frame, "SECTION_SLICE", [ section |-> Some(extracted) ])

\* main.py lines 287-318: the section is cut to max_length, or returned.
section_final_stage(frame, extracted, budget) ==
    Returns(
        Staged(frame,
               IF Len(extracted.content) > budget
               THEN "TRUNCATE" ELSE "PASSTHROUGH",
               << >>),
        "DONE",
        section_result(extracted.content, extracted.start,
                       Len(frame.result.content), budget))

\* The calls: convert cut to max_length, resumed from an offset, called
\* with an offset past the end and called without arguments; the section
\* retrieval of a section that is cut, of one that fits and of one that
\* the page does not have.
CallInputs ==
    { Frame("convert", PageTreeA, Some(4), None, None),
      Frame("convert", PageTreeA, Some(4), Some(4), None),
      Frame("convert", PageTreeA, None, Some(20), None),
      Frame("convert", PageTreeB, None, None, None),
      Frame("section", PageTreeA, Some(4), None, Some(<< "a" >>)),
      Frame("section", PageTreeB, Some(FETCH_MAX_LENGTH), None,
            Some(<< "a" >>)),
      Frame("section", PageTreeA, Some(4), None, Some(<< "z" >>)) }

PipelineInit ==
    /\ html = << >>
    /\ document = << >>
    /\ max_length = None
    /\ window_ratio = DEFAULT_TRUNCATION_WINDOW_RATIO
    /\ pc = "pipeline"
    /\ start_index = None
    /\ section = None
    /\ result = NoResult
    /\ collected = << >>
    /\ hops = 0
    /\ request = None
    /\ pages = << >>
    /\ calls = << >>
    /\ tasks \in [1..MaxCalls -> CallInputs]
    /\ deny_lists = DenyLists

\* Call i runs one stage and is left with the frame given.
Runs(i, frame) ==
    /\ pc = "pipeline"
    /\ \E left \in { frame } : tasks' = [ tasks EXCEPT ![i] = left ]
    /\ UNCHANGED << request, pages, calls, pc, result >>
    /\ UNCHANGED << html, document, max_length, window_ratio, start_index,
                    section, collected, hops >>

SanitizeStage(i) ==
    /\ tasks[i].stage = "START"
    /\ Runs(i, sanitize_stage(tasks[i], deny_lists))
    /\ deny_lists' = lists_after_sanitize(deny_lists)

ExtractMainStage(i) ==
    /\ tasks[i].stage = "SANITIZE"
    /\ Runs(i, extract_main_stage(tasks[i]))
    /\ UNCHANGED deny_lists

RenderStage(i) ==
    /\ tasks[i].stage = "EXTRACT_MAIN"
    /\ Runs(i, render_stage(tasks[i]))
    /\ UNCHANGED deny_lists

OffsetSliceStage(i) ==
    /\ tasks[i].stage = "RENDER"
    /\ Runs(i, offset_slice_stage(tasks[i], convert_start_index(tasks[i])))
    /\ UNCHANGED deny_lists

FinalStage(i) ==
    /\ tasks[i].stage = "OFFSET_SLICE"
    /\ Runs(i, final_stage(tasks[i], convert_max_length(tasks[i]),
                           convert_start_index(tasks[i])))
    /\ UNCHANGED deny_lists

SectionSliceStage(i) ==
    /\ tasks[i].stage = "CONVERTED"
    /\ Runs(i, section_slice_stage(tasks[i],
                   extract_section(tasks[i].result.content,
                                   Get(tasks[i].section_name))))
    /\ UNCHANGED deny_lists

SectionFinalStage(i) ==
    /\ tasks[i].stage = "SECTION_SLICE"
    /\ Runs(i, section_final_stage(tasks[i], Get(tasks[i].section),
                                   Get(tasks[i].max_length)))
    /\ UNCHANGED deny_lists

\* The next stage of call i.
StageOf(i) ==
    \/ SanitizeStage(i)
    \/ ExtractMainStage(i)
    \/ RenderStage(i)
    \/ OffsetSliceStage(i)
    \/ FinalStage(i)
    \/ SectionSliceStage(i)
    \/ SectionFinalStage(i)

PipelineNext == \E i \in 1..MaxCalls : StageOf(i)

PipelineSpec == PipelineInit /\ [][PipelineNext]_vars

\* The call has returned or raised.
Finished(frame) == frame.stage \in { "DONE", "FAILED" }

\* The frame the next stage of the call leaves, by the stage it is at.
frame_after_stage(frame, lists) ==
    CASE frame.stage = "START" -> sanitize_stage(frame, lists)
      [] frame.stage = "SANITIZE" -> extract_main_stage(frame)
      [] frame.stage = "EXTRACT_MAIN" -> render_stage(frame)
      [] frame.stage = "RENDER" ->
             offset_slice_stage(frame, convert_start_index(frame))
      [] frame.stage = "OFFSET_SLICE" ->
             final_stage(frame, convert_max_length(frame),
                         convert_start_index(frame))
      [] frame.stage = "CONVERTED" ->
             section_slice_stage(frame,
                 extract_section(frame.result.content,
                                 Get(frame.section_name)))
      [] frame.stage = "SECTION_SLICE" ->
             section_final_stage(frame, Get(frame.section),
                                 Get(frame.max_length))
      [] OTHER -> frame

\* ENABLED <<StageOf(i)>>_vars, written out: the call has a stage to run
\* and the stage leaves a frame other than the one it found.
StageEnabled(i) ==
    /\ pc = "pipeline"
    /\ ~Finished(tasks[i])
    /\ frame_after_stage(tasks[i], deny_lists) # tasks[i]

\* convert and the section retrieval are straight-line code: a call that
\* has been made runs every stage up to its return or its exception. The
\* condition is WF_vars(StageOf(i)) with its ENABLED written out as the
\* state predicate StageEnabled(i).
PipelineFairSpec ==
    /\ PipelineSpec
    /\ \A i \in 1..MaxCalls :
           \/ []<>(~StageEnabled(i))
           \/ []<><<StageOf(i)>>_vars

\* The Markdown of the page of the call, rendered with no other call
\* around: sanitized with the lists of the module as they are written.
MarkdownAlone(frame) ==
    html_to_markdown(frame.html, sanitize_html(frame.html),
        first_container(content_selectors(frame.html,
                                          sanitize_html(frame.html))),
        1)

\* What the call returns or raises when it runs alone.
ResultAlone(frame) ==
    IF frame.kind = "section"
    THEN fetch_tool_section(MarkdownAlone(frame), frame.max_length,
                            Get(frame.section_name))
    ELSE convert_html_to_markdown(MarkdownAlone(frame), frame.max_length,
             DEFAULT_TRUNCATION_WINDOW_RATIO, frame.start_index)

\* A step changes the frame of one call at most and leaves the lists of the
\* module alone.
StepIsLocal ==
    /\ deny_lists' = deny_lists
    /\ \E i \in 1..MaxCalls :
           \A j \in 1..MaxCalls \ { i } : tasks'[j] = tasks[j]

\* C26: calls of convert that run interleaved in any way, one after the
\* other included, share no state: every step changes the locals of one
\* call only, the module-level deny-lists are never modified, and each call
\* returns or raises exactly what it does when it runs alone.
C26_CallsAreIndependent ==
    /\ [](deny_lists = DenyLists)
    /\ [](\A i \in 1..MaxCalls :
              Finished(tasks[i]) => tasks[i].result = ResultAlone(tasks[i]))
    /\ [][StepIsLocal]_vars

\* C26 witness: two calls on the same page are both under way, the one
\* rendered and about to be cut, the other not yet sanitized.
C26_Witness ==
    /\ pc = "pipeline"
    /\ tasks[1].stage = "RENDER"
    /\ tasks[2].stage = "START"
    /\ tasks[1].html = tasks[2].html
    /\ tasks[1].max_length = Some(4)
    /\ tasks[2].start_index = Some(4)

\* The stages of a call of convert, in order, up to the last one.
ConvertStages ==
    << "SANITIZE", "EXTRACT_MAIN", "RENDER", "OFFSET_SLICE" >>

\* The trace is the stages of one call of convert, run in order up to
\* some stage, the last being TRUNCATE or PASSTHROUGH.
IsConvertTrace(trace) ==
    /\ Len(trace) <= Len(ConvertStages) + 1
    /\ \A k \in 1..Len(trace) :
           IF k <= Len(ConvertStages) THEN trace[k] = ConvertStages[k]
           ELSE trace[k] \in { "TRUNCATE", "PASSTHROUGH" }

\* The trace of a section retrieval: a call of convert, which passes its
\* whole text through, then SECTION_SLICE, then TRUNCATE or PASSTHROUGH.
IsSectionTrace(trace) ==
    /\ IsConvertTrace(Slice(trace, 0, Len(ConvertStages) + 1))
    /\ Len(trace) <= Len(ConvertStages) + 3
    /\ Len(trace) > Len(ConvertStages) =>
           trace[Len(ConvertStages) + 1] = "PASSTHROUGH"
    /\ Len(trace) > Len(ConvertStages) + 1 =>
           trace[Len(ConvertStages) + 2] = "SECTION_SLICE"
    /\ Len(trace) > Len(ConvertStages) + 2 =>
           trace[Len(ConvertStages) + 3] \in { "TRUNCATE", "PASSTHROUGH" }

\* The call failed at its slicing stage, after rendering and before any
\* truncation or metadata, with the error of that stage.
FailedAtSlicing(frame) ==
    /\ frame.trace # << >>
    /\ \E k \in 1..Len(frame.trace) : frame.trace[k] = "RENDER"
    /\ \A k \in 1..Len(frame.trace) : frame.trace[k] # "TRUNCATE"
    /\ IsNone(frame.result.metadata)
    /\ frame.result.content = << >>
    /\ IF frame.kind = "section"
       THEN /\ frame.trace[Len(frame.trace)] = "SECTION_SLICE"
            /\ frame.result.kind = "SectionNotFoundError"
       ELSE /\ frame.trace[Len(frame.trace)] = "OFFSET_SLICE"
            /\ frame.result.kind = "OffsetError"

\* The call reached DONE with all of its stages run.
DoneWithResult(frame) ==
    /\ frame.result.kind = "ConversionResult"
    /\ Len(frame.trace)
           = IF frame.kind = "section" THEN Len(ConvertStages) + 3
             ELSE Len(ConvertStages) + 1

\* The stages of the call are in order.
StagesInOrder(frame) ==
    /\ IF frame.kind = "section" THEN IsSectionTrace(frame.trace)
       ELSE IsConvertTrace(frame.trace)
    /\ frame.stage = "FAILED" => FailedAtSlicing(frame)
    /\ frame.stage = "DONE" => DoneWithResult(frame)
    /\ (/\ frame.kind = "convert"
        /\ Len(frame.trace) >= Len(ConvertStages)
        /\ ~IsNone(frame.start_index)
        /\ Get(frame.start_index) >= frame.total_length)
       => frame.stage = "FAILED"

=============================================================================
